---- MODULE Spec2Model ----
(***************************************************************************)
(* Model of the matching engine of src/united_try.py: extract_weight,      *)
(* extract_product_details, ProductMatcher.calculate_match_score and       *)
(* ProductMatcher.find_best_match.                                         *)
(*                                                                         *)
(* Text is modelled character by character: a Python str is a sequence of  *)
(* one-character strings ("REG" and "TM" stand for the registered and the  *)
(* trademark sign).  A score is the exact rational n/d (rapidfuzz returns   *)
(* the float nearest to it).                                               *)
(***************************************************************************)
EXTENDS Integers, Sequences, FiniteSets, TLC

(***************************************************************************)
(* Python str primitives                                                   *)
(***************************************************************************)
Uppers == <<"A","B","C","D","E","F","G","H","I","J","K","L","M","N","O","P","Q","R","S","T","U","V","W","X","Y","Z">>
Lowers == <<"a","b","c","d","e","f","g","h","i","j","k","l","m","n","o","p","q","r","s","t","u","v","w","x","y","z">>
Digits == <<"0","1","2","3","4","5","6","7","8","9">>

UpperSet == {Uppers[i] : i \in 1..Len(Uppers)}
LowerSet == {Lowers[i] : i \in 1..Len(Lowers)}
DigitSet == {Digits[i] : i \in 1..Len(Digits)}
AlphaSet == UpperSet \cup LowerSet
\* \w of the re module: letters, digits and the underscore
WordSet == AlphaSet \cup DigitSet \cup {"_"}
\* \s of the re module (the inputs hold no other white space than the blank)
SpaceSet == {" "}

ToLower == [c \in UpperSet |-> Lowers[CHOOSE i \in 1..Len(Uppers) : Uppers[i] = c]]
ToUpper == [c \in LowerSet |-> Uppers[CHOOSE i \in 1..Len(Lowers) : Lowers[i] = c]]
DigitVal == [c \in DigitSet |-> (CHOOSE i \in 1..Len(Digits) : Digits[i] = c) - 1]

\* code-point order of the characters that occur in normalized text
Alphabet == <<" ","0","1","2","3","4","5","6","7","8","9","A","B","C","D","E","F","G","H","I","J","K","L","M","N","O","P","Q","R","S","T","U","V","W","X","Y","Z","_","a","b","c","d","e","f","g","h","i","j","k","l","m","n","o","p","q","r","s","t","u","v","w","x","y","z">>
Rank == [c \in {Alphabet[i] : i \in 1..Len(Alphabet)} |->
            CHOOSE i \in 1..Len(Alphabet) : Alphabet[i] = c]

LowerChar(c) == IF c \in UpperSet THEN ToLower[c] ELSE c
UpperChar(c) == IF c \in LowerSet THEN ToUpper[c] ELSE c

\* the smallest and the largest element of a non-empty set of integers
MinOf(S) == CHOOSE k \in S : \A h \in S : k <= h
MaxOf(S) == CHOOSE k \in S : \A h \in S : h <= k

\* the k-th smallest element of a set of integers
KthOf(S, k) == CHOOSE i \in S : Cardinality({h \in S : h < i}) = k - 1

\* a function on 1..n as a sequence
AsSeq(f) == SubSeq(f, 1, Len(f))

\* str.lower(), str.upper()
Lower(s) == AsSeq([i \in 1..Len(s) |-> LowerChar(s[i])])
Upper(s) == AsSeq([i \in 1..Len(s) |-> UpperChar(s[i])])

\* s[i:j] for 1-based inclusive positions
Slice(s, i, j) == IF j < i THEN << >> ELSE SubSeq(s, i, j)

\* does p occur in s at position i
MatchAt(p, s, i) ==
    /\ i >= 1
    /\ i + Len(p) - 1 <= Len(s)
    /\ \A k \in 1..Len(p) : s[i + k - 1] = p[k]

\* p in s
IsSubstr(p, s) == \E i \in 1..(Len(s) - Len(p) + 1) : MatchAt(p, s, i)

\* s.find(p), 1-based; 0 when p does not occur
Find(p, s) ==
    IF IsSubstr(p, s)
    THEN CHOOSE i \in 1..(Len(s) - Len(p) + 1) :
            /\ MatchAt(p, s, i)
            /\ \A h \in 1..(i - 1) : ~MatchAt(p, s, h)
    ELSE 0

\* s.rfind(p), 1-based; 0 when p does not occur
RFind(p, s) ==
    IF IsSubstr(p, s)
    THEN CHOOSE i \in 1..(Len(s) - Len(p) + 1) :
            /\ MatchAt(p, s, i)
            /\ \A h \in (i + 1)..(Len(s) - Len(p) + 1) : ~MatchAt(p, s, h)
    ELSE 0

\* s.split(p)[0] and s.split(p, 1)[1] (the latter only when p occurs)
Before(p, s) == IF Find(p, s) = 0 THEN s ELSE Slice(s, 1, Find(p, s) - 1)
After(p, s) == Slice(s, Find(p, s) + Len(p), Len(s))
\* s.rsplit(p, 1)[1]
AfterLast(p, s) == Slice(s, RFind(p, s) + Len(p), Len(s))

\* str.strip()
Strip(s) ==
    LET nb == {i \in 1..Len(s) : s[i] \notin SpaceSet}
    IN IF nb = {} THEN << >>
       ELSE Slice(s, CHOOSE i \in nb : \A h \in nb : i <= h,
                     CHOOSE i \in nb : \A h \in nb : i >= h)

\* the end of the longest run of characters of set cs that starts at i (i - 1 when empty)
RunEnd(s, i, cs) ==
    LET stops == {j \in i..Len(s) : s[j] \notin cs}
    IN IF i > Len(s) THEN i - 1
       ELSE IF stops = {} THEN Len(s)
       ELSE MinOf(stops) - 1

\* the end of the word that starts at i
WordEnd(s, i) ==
    LET stops == {j \in i..Len(s) : s[j] \in SpaceSet}
    IN IF stops = {} THEN Len(s) ELSE MinOf(stops) - 1

\* str.split(): the words of s
Words(s) ==
    LET starts == {i \in 1..Len(s) : s[i] \notin SpaceSet /\ (i = 1 \/ s[i - 1] \in SpaceSet)}
    IN AsSeq([k \in 1..Cardinality(starts) |->
                 Slice(s, KthOf(starts, k), WordEnd(s, KthOf(starts, k)))])

\* str.split(c) for a one-character separator
SplitChar(s, c) ==
    LET seps == {i \in 1..Len(s) : s[i] = c}
        n == Cardinality(seps)
    IN AsSeq([k \in 1..(n + 1) |->
                 Slice(s, IF k = 1 THEN 1 ELSE KthOf(seps, k - 1) + 1,
                          IF k = n + 1 THEN Len(s) ELSE KthOf(seps, k) - 1)])

RECURSIVE JoinFrom(_, _)
JoinFrom(ws, i) ==
    IF i > Len(ws) THEN << >>
    ELSE IF i = Len(ws) THEN ws[i]
    ELSE ws[i] \o <<" ">> \o JoinFrom(ws, i + 1)

\* ' '.join(ws)
Join(ws) == JoinFrom(ws, 1)

\* re.sub(r'[^\w\s]', ' ', text.lower())
Depunct(s) ==
    AsSeq([i \in 1..Len(s) |->
              IF s[i] \in WordSet THEN LowerChar(s[i])
              ELSE IF s[i] \in SpaceSet THEN s[i] ELSE " "])

\* re.sub(r'\s+', ' ', text).strip()
Squeeze(s) == Join(Words(s))

normalize_text(text) == IF text = << >> THEN << >> ELSE Squeeze(Depunct(text))

Max(a, b) == IF a >= b THEN a ELSE b
Min(a, b) == IF a <= b THEN a ELSE b
Abs(a) == IF a >= 0 THEN a ELSE -a

\* s < t in Python's string order
StrLess(s, t) ==
    LET diff == {i \in 1..Min(Len(s), Len(t)) : s[i] # t[i]}
    IN IF diff = {} THEN Len(s) < Len(t)
       ELSE Rank[s[MinOf(diff)]] < Rank[t[MinOf(diff)]]

\* the place of ws[i] in sorted(ws)
SortedPlace(ws, i) ==
    1 + Cardinality({j \in 1..Len(ws) : StrLess(ws[j], ws[i]) \/ (ws[j] = ws[i] /\ j < i)})

\* sorted(ws)
SortWords(ws) ==
    AsSeq([k \in 1..Len(ws) |-> ws[CHOOSE i \in 1..Len(ws) : SortedPlace(ws, i) = k]])

\* the value of a run of decimal digits
RECURSIVE ParseIntFrom(_, _, _)
ParseIntFrom(s, i, acc) ==
    IF i > Len(s) THEN acc ELSE ParseIntFrom(s, i + 1, 10 * acc + DigitVal[s[i]])

ParseInt(s) == ParseIntFrom(s, 1, 0)

(***************************************************************************)
(* rapidfuzz.fuzz.token_sort_ratio                                         *)
(***************************************************************************)
\* Row i of the longest-common-subsequence table from row i - 1 (position j + 1 holds
\* column j).  Rows do not decrease from left to right, so the best match of x that
\* column j can use is the last occurrence of x in t[1..j].
LcsRow(prev, x, t) ==
    LET P == {k \in 1..Len(t) : t[k] = x}
    IN IF P = {} THEN prev
       ELSE [j \in 1..(Len(t) + 1) |->
                LET ks == {k \in P : k < j}
                IN IF ks = {} THEN prev[j] ELSE Max(prev[j], prev[MaxOf(ks)] + 1)]

\* the row after the characters lo..hi of s, starting from row prev (the rows are
\* computed by halves, each half evaluated before the next one starts)
RECURSIVE LcsRows(_, _, _, _, _)
LcsRows(prev, s, t, lo, hi) ==
    IF lo > hi THEN prev
    ELSE IF lo = hi THEN LcsRow(prev, s[lo], t)
    ELSE LET mid == (lo + hi) \div 2
             left == LcsRows(prev, s, t, lo, mid)
         IN IF left = left THEN LcsRows(left, s, t, mid + 1, hi) ELSE left

\* the length of the longest common subsequence of s and t
Lcs(s, t) == LcsRows([j \in 1..(Len(t) + 1) |-> 0], s, t, 1, Len(s))[Len(t) + 1]

\* fuzz.ratio: 100 * (1 - indel_distance / (len(s) + len(t))) = 200 * lcs / (len(s) + len(t))
Ratio(s, t) ==
    IF Len(s) + Len(t) = 0 THEN [n |-> 100, d |-> 1]
    ELSE [n |-> 200 * Lcs(s, t), d |-> Len(s) + Len(t)]

TokenSortRatio(s, t) == Ratio(Join(SortWords(Words(s))), Join(SortWords(Words(t))))

\* arithmetic on scores n/d
ScoreInt(k) == [n |-> k, d |-> 1]
ScoreAdd(x, k) == [n |-> x.n + k * x.d, d |-> x.d]
ScoreGe(x, k) == x.n >= k * x.d
ScoreLt(x, k) == x.n < k * x.d
ScoreIs(x, k) == x.n = k * x.d
ScoreGt(x, y) == x.n * y.d > y.n * x.d
ScoreMin(x, k) == IF ScoreGt(x, ScoreInt(k)) THEN ScoreInt(k) ELSE x


(***************************************************************************)
(* Regular-expression pieces shared by the extractors                      *)
(***************************************************************************)
\* the position after the run of white space that starts at q (\s*)
SkipWs(s, q) == RunEnd(s, q, SpaceSet) + 1

\* is there a character of set cs at position q
CharAt(s, q, cs) == q >= 1 /\ q <= Len(s) /\ s[q] \in cs

\* (\d+)\s*<lit> matched at position p of the lower-cased text ls
DigitsThenAt(ls, p, lit) ==
    /\ CharAt(ls, p, DigitSet)
    /\ MatchAt(lit, ls, SkipWs(ls, RunEnd(ls, p, DigitSet) + 1))

\* pack\s*of\s*(\d+) matched at position p; PackOfDigits is where the digits start
PackOfDigits(ls, p) == SkipWs(ls, SkipWs(ls, p + 4) + 2)
PackOfAt(ls, p) ==
    /\ MatchAt(<<"p","a","c","k">>, ls, p)
    /\ MatchAt(<<"o","f">>, ls, SkipWs(ls, p + 4))
    /\ CharAt(ls, PackOfDigits(ls, p), DigitSet)

\* the least element of a non-empty set of integers

NoCount == [has |-> FALSE, v |-> 0]

\* re.search of one count pattern: the count of the leftmost match
CountByDigitsThen(ls, lit) ==
    LET ps == {p \in 1..Len(ls) : DigitsThenAt(ls, p, lit)}
    IN IF ps = {} THEN NoCount
       ELSE [has |-> TRUE,
             v |-> ParseInt(Slice(ls, MinOf(ps), RunEnd(ls, MinOf(ps), DigitSet)))]

CountByPackOf(ls) ==
    LET ps == {p \in 1..Len(ls) : PackOfAt(ls, p)}
    IN IF ps = {} THEN NoCount
       ELSE [has |-> TRUE,
             v |-> ParseInt(Slice(ls, PackOfDigits(ls, MinOf(ps)),
                                  RunEnd(ls, PackOfDigits(ls, MinOf(ps)), DigitSet)))]

\* the loop over count_patterns: r'(\d+)\s*ct', r'(\d+)\s*count', r'pack\s*of\s*(\d+)',
\* r'(\d+)\s*pieces'; the first pattern that matches decides
ExtractCount4(text) ==
    LET ls == Lower(text)
    IN IF CountByDigitsThen(ls, <<"c","t">>).has THEN CountByDigitsThen(ls, <<"c","t">>)
       ELSE IF CountByDigitsThen(ls, <<"c","o","u","n","t">>).has THEN CountByDigitsThen(ls, <<"c","o","u","n","t">>)
       ELSE IF CountByPackOf(ls).has THEN CountByPackOf(ls)
       ELSE CountByDigitsThen(ls, <<"p","i","e","c","e","s">>)

(***************************************************************************)
(* extract_weight                                                          *)
(***************************************************************************)
NoWeight == [has |-> FALSE, n |-> 0, d |-> 1]

\* the end of (\d+\.?\d*) that starts at p
NumberEnd(s, p) ==
    LET e1 == RunEnd(s, p, DigitSet)
    IN IF CharAt(s, e1 + 1, {"."}) THEN RunEnd(s, e1 + 2, DigitSet) ELSE e1

\* r'(\d+\.?\d*)\s*-?\s*oz' at p
WeightOzAt(ls, p) ==
    /\ CharAt(ls, p, DigitSet)
    /\ LET q == SkipWs(ls, NumberEnd(ls, p) + 1)
           r == IF CharAt(ls, q, {"-"}) THEN q + 1 ELSE q
       IN MatchAt(<<"o","z">>, ls, SkipWs(ls, r))

\* r'(\d+\.?\d*)\s*ounce' at p
WeightOunceAt(ls, p) ==
    /\ CharAt(ls, p, DigitSet)
    /\ MatchAt(<<"o","u","n","c","e">>, ls, SkipWs(ls, NumberEnd(ls, p) + 1))

RECURSIVE Pow10(_)
Pow10(k) == IF k = 0 THEN 1 ELSE 10 * Pow10(k - 1)

\* float(match.group(1)) as the fraction n/d
ParseFloat(s) ==
    LET e1 == RunEnd(s, 1, DigitSet)
        frac == Slice(s, e1 + 2, Len(s))
    IN [has |-> TRUE,
        n |-> ParseInt(Slice(s, 1, e1)) * Pow10(Len(frac)) + ParseInt(frac),
        d |-> Pow10(Len(frac))]

extract_weight(product_name) ==
    LET ls == Lower(product_name)
        oz == {p \in 1..Len(ls) : WeightOzAt(ls, p)}
        ounce == {p \in 1..Len(ls) : WeightOunceAt(ls, p)}
    IN IF product_name = << >> THEN NoWeight
       ELSE IF oz # {} THEN ParseFloat(Slice(ls, MinOf(oz), NumberEnd(ls, MinOf(oz))))
       ELSE IF ounce # {} THEN ParseFloat(Slice(ls, MinOf(ounce), NumberEnd(ls, MinOf(ounce))))
       ELSE NoWeight

\* abs(a - b) > 0.01 for two weights.  (The code compares doubles: for weights written
\* with a few decimals the rounding can matter only when the difference is 0.01 itself.)
WeightDiffers(a, b) == Abs(a.n * b.d - b.n * a.d) * 100 > a.d * b.d

(***************************************************************************)
(* extract_product_details                                                 *)
(***************************************************************************)
\* the set of the elements of a list
Range(ws) == {ws[i] : i \in 1..Len(ws)}

\* x in ws for a list ws
InList(x, ws) == \E i \in 1..Len(ws) : ws[i] = x

\* the first element of list ws that satisfies Ok, or none
FirstIdx(ws, Ok(_)) ==
    LET is == {i \in 1..Len(ws) : Ok(ws[i])}
    IN IF is = {} THEN 0 ELSE MinOf(is)

\* the elements of ws that satisfy Ok, in order
Filter(ws, Ok(_)) ==
    LET is == {i \in 1..Len(ws) : Ok(ws[i])}
    IN AsSeq([k \in 1..Cardinality(is) |-> ws[KthOf(is, k)]])

\* the list without repeated and without empty elements (the unique_colors loop)
Unique(ws) ==
    LET is == {i \in 1..Len(ws) : ws[i] # << >> /\ \A h \in 1..(i - 1) : ws[h] # ws[i]}
    IN AsSeq([k \in 1..Cardinality(is) |-> ws[KthOf(is, k)]])

\* [normalize_text(w.strip()) for w in ws], keeping those longer than minlen
CleanWords(ws, minlen) ==
    Filter(AsSeq([i \in 1..Len(ws) |-> normalize_text(Strip(ws[i]))]),
           LAMBDA w : w # << >> /\ Len(w) > minlen)

flavor_keywords ==
    << <<"p","a","t","r","i","o","t","i","c">>, <<"r","e","d"," ","w","h","i","t","e"," ","b","l","u","e">>, <<"h","o","l","i","d","a","y">>, <<"c","h","r","i","s","t","m","a","s">>, <<"v","a","l","e","n","t","i","n","e">>, <<"e","a","s","t","e","r">>,
       <<"p","e","a","n","u","t">>, <<"p","e","a","n","u","t"," ","b","u","t","t","e","r">>, <<"a","l","m","o","n","d">>, <<"o","r","i","g","i","n","a","l">>, <<"f","r","u","i","t","y">>, <<"v","a","r","i","e","t","y">>,
       <<"a","s","s","o","r","t","e","d">>, <<"m","i","x">>, <<"m","i","x","e","d">>, <<"m","i","n","i","s">>, <<"f","u","n"," ","s","i","z","e">>, <<"f","u","l","l"," ","s","i","z","e">>, <<"k","i","n","g"," ","s","i","z","e">>,
       <<"s","h","a","r","e"," ","s","i","z","e">>, <<"s","i","n","g","l","e","s"," ","s","i","z","e">>, <<"p","a","r","t","y"," ","s","i","z","e">>, <<"w","i","n","t","-","o","-","g","r","e","e","n">>, <<"p","e","p","p","e","r","m","i","n","t">>,
       <<"s","p","e","a","r","m","i","n","t">>, <<"b","u","b","b","l","e","m","i","n","t">>, <<"c","o","b","a","l","t">>, <<"r","a","i","n">> >>

\* the flavor loop: the first keyword of the list that occurs in the lower-cased name
ExtractFlavor(product_name) ==
    LET k == FirstIdx(flavor_keywords, LAMBDA kw : IsSubstr(kw, Lower(product_name)))
    IN IF k = 0 THEN << >> ELSE flavor_keywords[k]

HasPipe(product_name) == IsSubstr(<<"|">>, product_name)

\* product_name.split('|')[1].strip()
AfterBrand(product_name) == Strip(SplitChar(product_name, "|")[2])

ExtractBrand(product_name) ==
    IF HasPipe(product_name)
    THEN normalize_text(Strip(SplitChar(product_name, "|")[1]))
    ELSE << >>

model_end_patterns == << <<"G","l","a","s","s","e","s">>, <<"S","u","n","g","l","a","s","s","e","s">>, <<"E","y","e","w","e","a","r">>, <<"w","i","t","h">>, <<",">>, <<"(">>, <<"-">> >>

ExtractModel(product_name) ==
    IF ~HasPipe(product_name) THEN << >>
    ELSE LET after_brand == AfterBrand(product_name)
         IN IF IsSubstr(<<"-">>, after_brand)
            THEN normalize_text(Strip(Before(<<"-">>, after_brand)))
            ELSE LET k == FirstIdx(model_end_patterns,
                                   LAMBDA pat : Find(pat, after_brand) > 1)
                     model_part == IF k = 0 THEN after_brand
                                   ELSE Strip(Before(model_end_patterns[k], after_brand))
                     model_words == Words(model_part)
                 IN IF Len(model_words) <= 4
                    THEN normalize_text(model_part)
                    ELSE normalize_text(Join(SubSeq(model_words, 1, 3)))

\* the text after the main separator, from which the colours are read
ColorText(product_name) ==
    IF HasPipe(product_name)
    THEN LET after_brand == AfterBrand(product_name)
         IN IF IsSubstr(<<"-">>, after_brand) THEN Strip(After(<<"-">>, after_brand))
            ELSE IF IsSubstr(<<",">>, after_brand) THEN Strip(Before(<<",">>, after_brand))
            ELSE << >>
    ELSE IF IsSubstr(<<"-">>, product_name) THEN Strip(AfterLast(<<"-">>, product_name))
    ELSE << >>

\* the frame colour words of color_text
FrameWords(color_text) ==
    IF IsSubstr(<<",">>, color_text)
    THEN CleanWords(Words(Strip(Before(<<",">>, color_text))), 2)
    ELSE LET frame_color ==
                IF IsSubstr(<<"P","r","i","z","m">>, color_text)
                THEN Strip(Before(<<"P","r","i","z","m">>, color_text))
                ELSE IF IsSubstr(<<"T","r","a","n","s","i","t","i","o","n","s">>, color_text)
                THEN Strip(Before(<<"T","r","a","n","s","i","t","i","o","n","s">>, color_text))
                ELSE IF IsSubstr(<<"l","e","n","s","e","s">>, Lower(color_text))
                THEN Strip(Slice(color_text, 1, Find(<<"l","e","n","s","e","s">>, Lower(color_text)) - 1))
                ELSE Strip(color_text)
         IN CleanWords(Words(frame_color), 2)

\* the first two words after "Prizm...TM"
PrizmWords(color_text) ==
    IF ~IsSubstr(<<"P","r","i","z","m">>, color_text) THEN << >>
    ELSE LET prizm_part == Slice(color_text, Find(<<"P","r","i","z","m">>, color_text), Len(color_text))
         IN IF ~IsSubstr(<<"TM">>, prizm_part) THEN << >>
            ELSE LET after_tm == Strip(SplitChar(prizm_part, "TM")[2])
                     parts == Words(Before(<<",">>, after_tm))
                 IN CleanWords(SubSeq(parts, 1, Min(2, Len(parts))), 1)

\* the words after "Transitions...(R)" up to "lenses"
TransitionsWords(color_text) ==
    IF ~IsSubstr(<<"T","r","a","n","s","i","t","i","o","n","s">>, color_text) THEN << >>
    ELSE LET part == Slice(color_text, Find(<<"T","r","a","n","s","i","t","i","o","n","s">>, color_text), Len(color_text))
         IN IF ~IsSubstr(<<"REG">>, part) THEN << >>
            ELSE LET after_reg == Strip(SplitChar(part, "REG")[2])
                     cols == Strip(Before(<<"L","e","n","s","e","s">>, Before(<<"l","e","n","s","e","s">>, after_reg)))
                 IN CleanWords(Words(cols), 2)

common_colors ==
    << <<"w","h","i","t","e">>, <<"b","l","a","c","k">>, <<"g","r","e","y">>, <<"g","r","a","y">>, <<"g","r","e","e","n">>, <<"b","l","u","e">>, <<"r","e","d">>, <<"y","e","l","l","o","w">>,
       <<"o","r","a","n","g","e">>, <<"p","u","r","p","l","e">>, <<"v","i","o","l","e","t">>, <<"b","r","o","w","n">>, <<"p","i","n","k">>, <<"s","a","p","p","h","i","r","e">>, <<"e","m","e","r","a","l","d">>,
       <<"a","m","e","t","h","y","s","t">>, <<"c","o","s","m","i","c">>, <<"m","a","t","t","e">>, <<"s","h","i","n","y">>, <<"c","h","a","l","k","y">>, <<"m","y","s","t","i","c">>, <<"a","s","t","e","r","o","i","d">>,
       <<"g","r","a","p","h","i","t","e">> >>

\* the text in which the palette of common colours is searched
ColorSection(product_name) ==
    IF HasPipe(product_name)
    THEN LET after_brand == AfterBrand(product_name)
         IN IF IsSubstr(<<"-">>, after_brand) THEN After(<<"-">>, after_brand)
            ELSE IF IsSubstr(<<",">>, after_brand) THEN After(<<",">>, after_brand)
            ELSE after_brand
    ELSE IF IsSubstr(<<"-">>, product_name) THEN AfterLast(<<"-">>, product_name)
    ELSE << >>

\* the palette loop: every common colour of the colour section not yet listed
Palette(section_lower, color_words) ==
    IF section_lower = << >> THEN color_words
    ELSE color_words \o Filter(common_colors,
                               LAMBDA c : /\ IsSubstr(c, section_lower)
                                          /\ ~InList(normalize_text(c), color_words))

ExtractColor(product_name) ==
    LET color_text == ColorText(product_name)
        color_words == IF color_text = << >> THEN << >>
                       ELSE FrameWords(color_text) \o PrizmWords(color_text)
                                \o TransitionsWords(color_text)
    IN Join(Unique(Palette(Lower(ColorSection(product_name)), color_words)))

\* re.search(r'Gen\s*(\d+)', product_name, re.IGNORECASE): "Gen " and the digits.
\* (The second pattern, r'\(Gen\s*(\d+)\)', matches only where the first one does.)
GenAt(ls, p) == MatchAt(<<"g","e","n">>, ls, p) /\ CharAt(ls, SkipWs(ls, p + 3), DigitSet)
GenDigits(ls) ==
    LET ps == {p \in 1..Len(ls) : GenAt(ls, p)}
    IN IF ps = {} THEN << >>
       ELSE Slice(ls, SkipWs(ls, MinOf(ps) + 3), RunEnd(ls, SkipWs(ls, MinOf(ps) + 3), DigitSet))

ExtractGeneration(product_name) ==
    IF GenDigits(Lower(product_name)) = << >> THEN << >>
    ELSE <<"G","e","n"," ">> \o GenDigits(Lower(product_name))

size_keywords == << <<"L","a","r","g","e">>, <<"S","m","a","l","l">>, <<"M","e","d","i","u","m">>, <<"S","t","a","n","d","a","r","d">>, <<"O","v","e","r","s","i","z","e","d">> >>

ExtractSize(product_name) ==
    LET k == FirstIdx(size_keywords, LAMBDA kw : IsSubstr(kw, product_name))
    IN IF k = 0 THEN << >> ELSE size_keywords[k]

ExtractLowBridgeFit(product_name) == IsSubstr(<<"l","o","w"," ","b","r","i","d","g","e">>, Lower(product_name))

ExtractFrameColor(product_name) ==
    IF ~HasPipe(product_name) THEN << >>
    ELSE LET after_brand == AfterBrand(product_name)
         IN IF ~IsSubstr(<<"-">>, after_brand) THEN << >>
            ELSE LET frame_part == Strip(SplitChar(after_brand, "-")[2])
                     frame_color ==
                        IF IsSubstr(<<",">>, frame_part) THEN Strip(Before(<<",">>, frame_part))
                        ELSE IF IsSubstr(<<"T","r","a","n","s","i","t","i","o","n","s">>, frame_part)
                        THEN Strip(Before(<<"T","r","a","n","s","i","t","i","o","n","s">>, frame_part))
                        ELSE IF IsSubstr(<<"P","r","i","z","m">>, frame_part)
                        THEN Strip(Before(<<"P","r","i","z","m">>, frame_part))
                        ELSE Strip(Before(<<"l","e","n","s","e","s">>, frame_part))
                 IN normalize_text(frame_color)

\* a regular-expression match: found or not, and the text of group 1
NoMatch == [has |-> FALSE, text |-> << >>]
Matched(t) == [has |-> TRUE, text |-> t]

\* the lazy group ([class]+?) starting at q: the least length e >= 1 such that the
\* characters q..q+e-1 are of class cs and the rest of the pattern matches at q+e
LazyEnd(ls, q, cs, End(_)) ==
    LET es == {e \in 1..(Len(ls) - q + 1) :
                  /\ \A k \in q..(q + e - 1) : ls[k] \in cs
                  /\ End(q + e)}
    IN IF es = {} THEN 0 ELSE MinOf(es)

\* \s+([class]+?) from position a: the greedy \s+ gives back white space only if
\* the group cannot match otherwise.  The start of the group, 0 when no match.
LazyStart(ls, a, cs, End(_)) ==
    LET qs == {q \in (a + 1)..(RunEnd(ls, a, SpaceSet) + 1) : LazyEnd(ls, q, cs, End) > 0}
    IN IF qs = {} THEN 0 ELSE MaxOf(qs)

\* word[(R)(TM)]? at position p: the position after the optional mark
MarkEnd(ls, p, word) ==
    IF CharAt(ls, p + Len(word), {"REG", "TM"}) THEN p + Len(word) + 1 ELSE p + Len(word)

\* re.search(word[(R)(TM)]?\s+([class]+?)<End>, text, re.IGNORECASE), group 1
LensSearch(text, word, cs, End(_)) ==
    LET ls == Lower(text)
        ps == {p \in 1..Len(ls) :
                  MatchAt(word, ls, p) /\ LazyStart(ls, MarkEnd(ls, p, word), cs, End) > 0}
    IN IF ps = {} THEN NoMatch
       ELSE LET q == LazyStart(ls, MarkEnd(ls, MinOf(ps), word), cs, End)
            IN Matched(Slice(text, q, q + LazyEnd(ls, q, cs, End) - 1))

\* \s+lenses? at position q
LensesAt(ls, q) == CharAt(ls, q, SpaceSet) /\ MatchAt(<<"l","e","n","s","e">>, ls, SkipWs(ls, q))

\* r'Transitions[(R)(TM)]?\s+([A-Za-z\s]+?)(?:\s+lenses?|,|$)'
TransitionsSearch(text) ==
    LensSearch(text, <<"t","r","a","n","s","i","t","i","o","n","s">>, LowerSet \cup SpaceSet,
               LAMBDA q : \/ LensesAt(Lower(text), q)
                          \/ CharAt(text, q, {","})
                          \/ q = Len(text) + 1)

\* r'Prizm[(TM)(R)]?\s+([A-Za-z0-9\s]+?)(?:\s*[,)]|$)'
PrizmSearch(text) ==
    LensSearch(text, <<"p","r","i","z","m">>, LowerSet \cup DigitSet \cup SpaceSet,
               LAMBDA q : \/ CharAt(text, SkipWs(text, q), {",", ")"})
                          \/ q = Len(text) + 1)

\* r',\s*([A-Za-z]+)\s+lenses?'
SimpleLensAt(ls, p) ==
    /\ CharAt(ls, p, {","})
    /\ CharAt(ls, SkipWs(ls, p + 1), LowerSet)
    /\ LensesAt(ls, RunEnd(ls, SkipWs(ls, p + 1), LowerSet) + 1)

SimpleLensSearch(text) ==
    LET ls == Lower(text)
        ps == {p \in 1..Len(ls) : SimpleLensAt(ls, p)}
    IN IF ps = {} THEN NoMatch
       ELSE Matched(Slice(text, SkipWs(ls, MinOf(ps) + 1),
                          RunEnd(ls, SkipWs(ls, MinOf(ps) + 1), LowerSet)))

\* r'([A-Za-z\s]+?)\s+lenses?'
LensTextSearch(text) ==
    LET ls == Lower(text)
        cs == LowerSet \cup SpaceSet
        ps == {p \in 1..Len(ls) : LazyEnd(ls, p, cs, LAMBDA q : LensesAt(ls, q)) > 0}
    IN IF ps = {} THEN NoMatch
       ELSE Matched(Slice(text, MinOf(ps),
                          MinOf(ps) + LazyEnd(ls, MinOf(ps), cs, LAMBDA q : LensesAt(ls, q)) - 1))

color_words_list ==
    << <<"g","r","e","e","n">>, <<"b","l","u","e">>, <<"r","e","d">>, <<"b","l","a","c","k">>, <<"c","l","e","a","r">>, <<"g","r","e","y">>, <<"g","r","a","y">>, <<"b","r","o","w","n">>,
       <<"y","e","l","l","o","w">>, <<"o","r","a","n","g","e">>, <<"p","u","r","p","l","e">>, <<"p","i","n","k">> >>

lens_type_keywords == << <<"P","o","l","a","r","i","s","e","d">>, <<"P","o","l","a","r","i","z","e","d">>, <<"G","r","a","d","i","e","n","t">> >>

\* the simple lens colour after a comma, when it is a colour word
SimpleLensColor(product_name) ==
    LET m == SimpleLensSearch(product_name)
    IN IF m.has /\ InList(Lower(Strip(m.text)), color_words_list)
       THEN Matched(Strip(m.text)) ELSE NoMatch

\* product_name[keyword_idx:].split(',')[0].split('lenses')[0].strip()
LensKeywordText(product_name) ==
    LET k == FirstIdx(lens_type_keywords, LAMBDA kw : IsSubstr(kw, product_name))
    IN IF k = 0 THEN << >>
       ELSE normalize_text(Strip(Before(<<"l","e","n","s","e","s">>, Before(<<",">>,
                Slice(product_name, Find(lens_type_keywords[k], product_name),
                      Len(product_name))))))

\* the lens fields of the details: lens, transitions_color, prizm_color,
\* simple_lens_color (has_simple: the key exists), lens_color, lens_type
NoLens ==
    [lens |-> << >>, transitions_color |-> << >>, prizm_color |-> << >>,
     simple_lens_color |-> << >>, lens_color |-> << >>, lens_type |-> << >>]

ExtractLens(product_name) ==
    IF IsSubstr(<<"T","r","a","n","s","i","t","i","o","n","s">>, product_name)
    THEN LET m == TransitionsSearch(product_name)
         IN IF m.has
            THEN [NoLens EXCEPT !.transitions_color = normalize_text(Strip(m.text)),
                                !.lens = <<"T","r","a","n","s","i","t","i","o","n","s"," ">> \o Strip(m.text)]
            ELSE [NoLens EXCEPT !.lens = <<"T","r","a","n","s","i","t","i","o","n","s">>]
    ELSE IF IsSubstr(<<"P","r","i","z","m">>, product_name)
    THEN LET m == PrizmSearch(product_name)
         IN IF m.has
            THEN [NoLens EXCEPT !.prizm_color = normalize_text(Strip(m.text)),
                                !.lens = <<"P","r","i","z","m"," ">> \o Strip(m.text)]
            ELSE [NoLens EXCEPT !.lens = <<"P","r","i","z","m">>]
    ELSE LET sc == SimpleLensColor(product_name)
             d1 == IF sc.has
                   THEN [NoLens EXCEPT !.simple_lens_color = normalize_text(sc.text),
                                       !.lens = sc.text \o <<" ","l","e","n","s","e","s">>]
                   ELSE NoLens
             m == LensTextSearch(product_name)
         IN IF m.has /\ d1.simple_lens_color = << >>
            THEN IF \E i \in 1..Len(lens_type_keywords) :
                        IsSubstr(Lower(lens_type_keywords[i]), Lower(Strip(m.text)))
                 THEN [d1 EXCEPT !.lens_type = normalize_text(Strip(m.text)),
                                 !.lens = normalize_text(Strip(m.text))]
                 ELSE [d1 EXCEPT !.lens_color = normalize_text(Strip(m.text)),
                                 !.lens = normalize_text(Strip(m.text))]
            ELSE IF \E i \in 1..Len(lens_type_keywords) :
                        IsSubstr(lens_type_keywords[i], product_name)
                 THEN [d1 EXCEPT !.lens_type = LensKeywordText(product_name),
                                 !.lens = LensKeywordText(product_name)]
                 ELSE d1

\* the details dictionary, l being the lens fields
DetailsWith(l, product_name) ==
       [brand |-> ExtractBrand(product_name),
        model |-> ExtractModel(product_name),
        color |-> ExtractColor(product_name),
        lens |-> l.lens,
        size |-> ExtractSize(product_name),
        weight |-> extract_weight(product_name),
        generation |-> ExtractGeneration(product_name),
        transitions_color |-> l.transitions_color,
        prizm_color |-> l.prizm_color,
        frame_color |-> ExtractFrameColor(product_name),
        lens_color |-> l.lens_color,
        lens_type |-> l.lens_type,
        simple_lens_color |-> l.simple_lens_color,
        low_bridge_fit |-> ExtractLowBridgeFit(product_name),
        flavor |-> ExtractFlavor(product_name),
        count |-> ExtractCount4(product_name),
        full_text |-> normalize_text(product_name)]

extract_product_details(product_name) == DetailsWith(ExtractLens(product_name), product_name)

(***************************************************************************)
(* The products of the analysis                                            *)
(***************************************************************************)
page == <<"h","t","t","p","s",":","/","/","s","h","o","p",".","e","x","a","m","p","l","e","/","p","/","1">>

Product(title) == [title |-> title, url |-> page, retailer |-> "target"]

\* the source descriptions with their search variants and the products found for them
Scenarios ==
    << [name |-> << >>, variants |-> << <<"H","I","B","L","O","K","S"," ","C","l","i","p","-","O","n"," ","P","o","l","a","r","i","z","e","d">> >>,
        pool |-> << Product(<<"H","I","B","L","O","K","S"," ","C","l","i","p","-","O","n"," ","P","o","l","a","r","i","z","e","d">>),
                    Product(<<"R","a","y","-","B","a","n"," ","W","a","y","f","a","r","e","r"," ","B","l","a","c","k">>) >>],
       [name |-> <<"B","r","a","n","d"," ","X"," ","|"," ","M","o","d","e","l","Y"," ","-"," ","S","h","i","n","y"," ","B","l","a","c","k",","," ","T","r","a","n","s","i","t","i","o","n","s","REG"," ","S","a","p","p","h","i","r","e"," ","l","e","n","s","e","s">>,
        variants |-> << <<"B","r","a","n","d"," ","X"," ","M","o","d","e","l","Y"," ","S","h","i","n","y"," ","B","l","a","c","k"," ","T","r","a","n","s","i","t","i","o","n","s"," ","S","a","p","p","h","i","r","e">> >>,
        pool |-> << Product(<<"B","r","a","n","d"," ","X"," ","M","o","d","e","l","Y"," ","S","h","i","n","y"," ","B","l","a","c","k"," ","T","r","a","n","s","i","t","i","o","n","s"," ","S","a","p","p","h","i","r","e"," ","S","u","n","g","l","a","s","s","e","s">>),
                    Product(<<"B","r","a","n","d"," ","X"," ","M","o","d","e","l","Y"," ","S","h","i","n","y"," ","B","l","a","c","k"," ","T","r","a","n","s","i","t","i","o","n","s"," ","G","r","a","p","h","i","t","e"," ","G","r","e","e","n"," ","S","u","n","g","l","a","s","s","e","s">>),
                    Product(<<"B","r","a","n","d"," ","X"," ","M","o","d","e","l","Y"," ","S","h","i","n","y"," ","B","l","a","c","k"," ","S","u","n","g","l","a","s","s","e","s">>) >>],
       [name |-> <<"C","a","n","d","y","C","o"," ","P","e","a","n","u","t"," ","9",".","7"," ","o","z">>,
        variants |-> << <<"C","a","n","d","y","C","o"," ","P","e","a","n","u","t"," ","9",".","7"," ","o","z">>, <<"C","a","n","d","y","C","o"," ","P","e","a","n","u","t">> >>,
        pool |-> << Product(<<"C","a","n","d","y","C","o"," ","P","e","a","n","u","t"," ","9",".","7"," ","o","z">>),
                    Product(<<"C","a","n","d","y","C","o"," ","P","e","a","n","u","t"," ","9",".","8"," ","o","z">>),
                    Product(<<"C","a","n","d","y","C","o"," ","P","e","a","n","u","t">>),
                    Product(<<"C","a","n","d","y","C","o"," ","P","e","a","n","u","t"," ","C","h","o","c","o","l","a","t","e"," ","C","a","n","d","y"," ","B","a","r"," ","9",".","7"," ","o","z">>) >>],
       [name |-> <<"C","a","n","d","y","C","o"," ","|"," ","P","e","a","n","u","t"," ","-"," ","R","e","d"," ","B","l","u","e"," ","1","1","5"," ","c","t">>,
        variants |-> << <<"C","a","n","d","y","C","o"," ","P","e","a","n","u","t"," ","R","e","d"," ","B","l","u","e"," ","1","1","5"," ","c","t">> >>,
        pool |-> << Product(<<"C","a","n","d","y","C","o"," ","P","e","a","n","u","t"," ","R","e","d"," ","B","l","u","e"," ","4","8"," ","p","i","e","c","e","s">>),
                    Product(<<"C","a","n","d","y","C","o"," ","P","e","a","n","u","t"," ","R","e","d"," ","B","l","u","e"," ","1","1","0"," ","c","t">>),
                    Product(<<"C","a","n","d","y","C","o"," ","P","e","a","n","u","t"," ","R","e","d"," ","B","l","u","e"," ","4","8"," ","c","t">>),
                    Product(<<"C","a","n","d","y","C","o"," ","A","l","m","o","n","d"," ","4","8"," ","c","t">>) >>],
       [name |-> <<"R","a","y","-","B","a","n"," ","|"," ","W","a","y","f","a","r","e","r"," ","-"," ","B","l","a","c","k",","," ","G","r","e","e","n"," ","l","e","n","s","e","s"," ","P","o","l","a","r","i","s","e","d">>,
        variants |-> << <<"R","a","y","-","B","a","n"," ","W","a","y","f","a","r","e","r"," ","B","l","a","c","k"," ","G","r","e","e","n"," ","P","o","l","a","r","i","s","e","d">> >>,
        pool |-> << Product(<<"R","a","y","-","B","a","n"," ","W","a","y","f","a","r","e","r"," ","B","l","a","c","k"," ","G","r","e","e","n"," ","P","o","l","a","r","i","s","e","d">>),
                    Product(<<"R","a","y","-","B","a","n"," ","W","a","y","f","a","r","e","r"," ","B","l","a","c","k"," ","G","r","e","e","n"," ","l","e","n","s","e","s">>) >>],
       [name |-> <<"R","a","y","-","B","a","n"," ","|"," ","W","a","y","f","a","r","e","r"," ","-"," ","B","l","a","c","k">>,
        variants |-> << <<"R","a","y","-","B","a","n"," ","W","a","y","f","a","r","e","r"," ","B","l","a","c","k">> >>,
        pool |-> << Product(<<"H","I","B","L","O","K","S"," ","C","l","i","p","-","O","n"," ","P","o","l","a","r","i","z","e","d"," ","f","o","r"," ","R","a","y","-","B","a","n"," ","W","a","y","f","a","r","e","r">>),
                    Product(<<"R","a","y","-","B","a","n"," ","W","a","y","f","a","r","e","r"," ","B","l","a","c","k">>),
                    Product(<<"R","a","y","-","B","a","n"," ","A","v","i","a","t","o","r"," ","B","l","a","c","k">>) >>],
       [name |-> <<"C","a","n","d","y","C","o"," ","P","e","a","n","u","t"," ","9",".","7"," ","o","z">>, variants |-> << >>,
        pool |-> << Product(<<"C","a","n","d","y","C","o"," ","P","e","a","n","u","t"," ","9",".","7"," ","o","z">>) >>],
       [name |-> <<"A","c","m","e"," ","|"," ","T","r","a","i","l"," ","B","l","a","z","e","r"," ","S","p","o","r","t"," ","-"," ","B","l","a","c","k">>,
        variants |-> << <<"A","c","m","e"," ","T","r","a","i","l"," ","B","l","a","z","e","r"," ","S","p","o","r","t"," ","B","l","a","c","k">> >>,
        pool |-> << Product(<<"A","c","m","e"," ","B","l","a","z","e","r"," ","B","l","a","c","k">>),
                    Product(<<"A","c","m","e"," ","T","r","a","i","l"," ","B","l","a","z","e","r"," ","S","p","o","r","t"," ","B","l","a","c","k">>) >>],
       [name |-> <<"O","a","k","l","e","y"," ","|"," ","H","o","l","b","r","o","o","k"," ","-"," ","B","l","a","c","k",","," ","C","l","e","a","r"," ","l","e","n","s","e","s">>,
        variants |-> << <<"O","a","k","l","e","y"," ","H","o","l","b","r","o","o","k"," ","B","l","a","c","k"," ","C","l","e","a","r">> >>,
        pool |-> << Product(<<"O","a","k","l","e","y"," ","H","o","l","b","r","o","o","k"," ","B","l","a","c","k"," ","P","o","l","a","r","i","z","e","d">>),
                    Product(<<"O","a","k","l","e","y"," ","H","o","l","b","r","o","o","k"," ","B","l","a","c","k"," ","C","l","e","a","r"," ","l","e","n","s","e","s">>) >>],
       [name |-> <<"O","a","k","l","e","y"," ","|"," ","H","o","l","b","r","o","o","k"," ","G","e","n"," ","2"," ","-"," ","B","l","a","c","k">>,
        variants |-> << <<"O","a","k","l","e","y"," ","H","o","l","b","r","o","o","k"," ","G","e","n"," ","2"," ","B","l","a","c","k">> >>,
        pool |-> << Product(<<"O","a","k","l","e","y"," ","H","o","l","b","r","o","o","k"," ","G","e","n"," ","3"," ","B","l","a","c","k">>),
                    Product(<<"H","I","B","L","O","K","S"," ","C","l","i","p","-","O","n"," ","P","o","l","a","r","i","z","e","d"," ","f","o","r"," ","O","a","k","l","e","y"," ","H","o","l","b","r","o","o","k"," ","G","e","n"," ","3">>) >>],
       [name |-> <<"O","a","k","l","e","y"," ","|"," ","H","o","l","b","r","o","o","k"," ","-"," ","B","l","a","c","k"," ","G","r","e","e","n"," ","l","e","n","s","e","s">>,
        variants |-> << <<"O","a","k","l","e","y"," ","H","o","l","b","r","o","o","k"," ","B","l","a","c","k"," ","G","r","e","e","n">> >>,
        pool |-> << Product(<<"O","a","k","l","e","y"," ","H","o","l","b","r","o","o","k"," ","B","l","a","c","k"," ","P","r","i","z","m"," ","G","r","e","e","n"," ","l","e","n","s","e","s">>),
                    Product(<<"O","a","k","l","e","y"," ","H","o","l","b","r","o","o","k"," ","B","l","a","c","k"," ","G","r","e","e","n"," ","l","e","n","s","e","s">>) >>],
       [name |-> <<"C","a","n","d","y","C","o"," ","|"," ","P","e","a","n","u","t"," ","-"," ","R","e","d"," ","B","l","u","e"," ","1","1","5"," ","c","t">>,
        variants |-> << <<"C","a","n","d","y","C","o"," ","P","e","a","n","u","t"," ","R","e","d"," ","B","l","u","e"," ","1","1","5"," ","c","t">> >>,
        pool |-> << Product(<<"C","a","n","d","y","C","o"," ","P","e","a","n","u","t"," ","R","e","d"," ","B","l","u","e">>),
                    Product(<<"C","a","n","d","y","C","o"," ","P","e","a","n","u","t"," ","R","e","d"," ","B","l","u","e"," ","A","t","t","a","c","h","m","e","n","t"," ","1","1","2"," ","c","t">>) >>],
       [name |-> <<"C","a","n","d","y","C","o"," ","P","e","a","n","u","t"," ","B","u","t","t","e","r"," ","9",".","7"," ","o","z">>,
        variants |-> << <<"C","a","n","d","y","C","o"," ","P","e","a","n","u","t"," ","B","u","t","t","e","r"," ","9",".","7"," ","o","z">> >>,
        pool |-> << Product(<<"C","a","n","d","y","C","o"," ","P","e","a","n","u","t"," ","B","u","t","t","e","r"," ","9",".","7"," ","o","z">>),
                    Product(<<"C","a","n","d","y","C","o"," ","P","e","a","n","u","t"," ","9",".","7"," ","o","z">>) >>],
       [name |-> <<"H","o","l","b","r","o","o","k"," ","G","e","n"," ","2"," ","B","l","a","c","k">>,
        variants |-> << <<"H","o","l","b","r","o","o","k"," ","G","e","n"," ","2"," ","B","l","a","c","k">> >>,
        pool |-> << Product(<<"H","o","l","b","r","o","o","k"," ","G","e","n"," ","2"," ","B","l","a","c","k">>) >>] >>

ScenarioSet == 1..Len(Scenarios)
PoolSet(s) == 1..Len(Scenarios[s].pool)
VariantSet(s) == 1..Len(Scenarios[s].variants)

Details(product_name) == extract_product_details(product_name)

\* the two texts that are compared for product p and variant v of scenario s: the
\* title and the description, or the title and the variant when there is no description
KnownPair(s, p, v) ==
    << normalize_text(Scenarios[s].pool[p].title),
       IF Scenarios[s].name = << >> THEN normalize_text(Scenarios[s].variants[v])
       ELSE normalize_text(Scenarios[s].name) >>

KnownPairs ==
    AsSeq([s \in ScenarioSet |->
        AsSeq([p \in PoolSet(s) |-> AsSeq([v \in VariantSet(s) |-> KnownPair(s, p, v)])])])

\* fuzz.token_sort_ratio of the known pairs, computed once
KnownRatios ==
    AsSeq([s \in ScenarioSet |->
        AsSeq([p \in PoolSet(s) |->
            AsSeq([v \in VariantSet(s) |->
                TokenSortRatio(KnownPairs[s][p][v][1], KnownPairs[s][p][v][2])])])])

KnownAt(a, b) ==
    UNION {UNION {{<<s, p, v>> : v \in {w \in VariantSet(s) :
                                          KnownPairs[s][p][w] \in {<<a, b>>, <<b, a>>}}} :
                  p \in PoolSet(s)} : s \in ScenarioSet}

token_sort_ratio(a, b) ==
    IF KnownAt(a, b) = {} THEN TokenSortRatio(a, b)
    ELSE LET at == CHOOSE at \in KnownAt(a, b) : TRUE
         IN KnownRatios[at[1]][at[2]][at[3]]

(***************************************************************************)
(* ProductMatcher.calculate_match_score                                    *)
(***************************************************************************)
\* the number of elements of ws that satisfy Ok
CountIf(ws, Ok(_)) == Cardinality({i \in 1..Len(ws) : Ok(ws[i])})

BrandBonus(d, variant_text) ==
    IF d.brand # << >> /\ IsSubstr(d.brand, variant_text) THEN 5 ELSE 0

\* matched_model_words >= len(model_words) * 0.7
ModelBonus(d, variant_text) ==
    IF d.model = << >> THEN 0
    ELSE IF IsSubstr(Lower(d.model), Lower(variant_text)) THEN 30
    ELSE LET model_words == Words(d.model)
             matched == CountIf(model_words,
                            LAMBDA w : Len(w) > 3 /\ IsSubstr(Lower(w), Lower(variant_text)))
         IN IF matched * 10 >= Len(model_words) * 7 THEN 15
            ELSE IF matched > 0 THEN 5
            ELSE 0

\* the first i with "color_words[i] color_words[i+1]" in the text, 0 when none
TwoWordColor(color_words, variant_lower) ==
    LET is == {i \in 1..(Len(color_words) - 1) :
                  IsSubstr(Lower(color_words[i] \o <<" ">> \o color_words[i + 1]),
                           variant_lower)}
    IN IF is = {} THEN 0 ELSE MinOf(is)

ColorBonus(d, variant_text) ==
    IF d.color = << >> THEN 0
    ELSE LET color_words == Words(d.color)
             variant_lower == Lower(variant_text)
             two == TwoWordColor(color_words, variant_lower)
             rest == [i \in 1..Len(color_words) |->
                         IF two > 0 /\ i \in {two, two + 1} THEN << >> ELSE color_words[i]]
             singles == CountIf(rest, LAMBDA w : /\ w # << >>
                                                 /\ Len(w) > 2
                                                 /\ IsSubstr(Lower(w), variant_lower))
             matched_colors == (IF two > 0 THEN 2 ELSE 0) + singles
         IN (IF two > 0 THEN 25 ELSE 0) + 12 * singles
                + (IF matched_colors > 1 THEN 10 ELSE 0)
                - (IF matched_colors = 0 THEN 5 ELSE 0)

LensBonus(d, variant_text) ==
    IF /\ d.lens # << >>
       /\ \E i \in 1..Len(Words(d.lens)) :
              /\ Len(Words(d.lens)[i]) > 3
              /\ IsSubstr(Lower(Words(d.lens)[i]), Lower(variant_text))
    THEN 10 ELSE 0

common_oakley_models ==
    << <<"G","a","s","c","a","n">>, <<"H","o","l","b","r","o","o","k">>, <<"F","r","o","g","s","k","i","n","s">>, <<"R","a","d","a","r">>, <<"J","a","w","b","r","e","a","k","e","r">>, <<"M"," ","F","r","a","m","e">>, <<"H","S","T","N">>,
       <<"V","a","n","g","u","a","r","d">>, <<"M","e","t","a"," ","V","a","n","g","u","a","r","d">>, <<"M","e","t","a">>, <<"H","e","a","d","l","i","n","e","r">>, <<"F","u","e","l"," ","C","e","l","l">>, <<"B","a","t","w","o","l","f">>,
       <<"P","l","a","n","k">>, <<"T","e","n">>, <<"S","l","i","v","e","r">>, <<"C","r","o","s","s","h","a","i","r">>, <<"W","i","r","e","t","a","p">>, <<"O","i","l"," ","R","i","g">>, <<"F","l","a","k">>,
       <<"F","l","a","k"," ","2",".","0">>, <<"F","l","a","k"," ","X","L">>, <<"F","l","a","k"," ","D","r","a","f","t">>, <<"F","l","a","k"," ","D","r","a","f","t"," ","X","L">> >>

common_rayban_models ==
    << <<"A","v","i","a","t","o","r">>, <<"W","a","y","f","a","r","e","r">>, <<"W","a","y","f","a","r","e","r"," ","L","a","r","g","e">>, <<"S","k","y","l","e","r">>, <<"C","l","u","b","m","a","s","t","e","r">>, <<"R","B","3","0","2","5">>,
       <<"R","B","2","1","4","0">>, <<"R","B","3","0","1","6">>, <<"E","r","i","k","a">>, <<"J","u","s","t","i","n">>, <<"N","e","w"," ","W","a","y","f","a","r","e","r">>, <<"O","r","i","g","i","n","a","l"," ","W","a","y","f","a","r","e","r">>,
       <<"H","e","a","d","l","i","n","e","r">>, <<"H","e","a","d","l","i","n","e","r"," ","L","o","w"," ","B","r","i","d","g","e">> >>

\* 50 when a known other model is named and no word of the expected model is, 30 when
\* a known other model is named next to the expected one
ModelPenalty(d, variant_text) ==
    LET all_models == common_oakley_models \o common_rayban_models
        variant_lower == Lower(variant_text)
        model_lower == Lower(d.model)
        expected_in_result ==
            \E i \in 1..Len(Words(d.model)) :
                /\ Len(Words(d.model)[i]) > 3
                /\ IsSubstr(Lower(Words(d.model)[i]), variant_lower)
    IN IF d.model = << >> THEN 0
       ELSE IF \E i \in 1..Len(all_models) :
                    /\ IsSubstr(Lower(all_models[i]), variant_lower)
                    /\ ~IsSubstr(Lower(all_models[i]), model_lower)
       THEN IF expected_in_result THEN 30 ELSE 50
       ELSE 0

\* str.capitalize()
Capitalize(s) == IF s = << >> THEN << >> ELSE <<UpperChar(s[1])>> \o Lower(Tail(s))

\* expected_size.capitalize() in TEXT or expected_size.upper() in TEXT
SizeMatch(size, text) ==
    \/ IsSubstr(Capitalize(Lower(size)), Upper(text))
    \/ IsSubstr(Upper(Lower(size)), Upper(text))

SizePenalty(d, variant_text) ==
    IF d.size # << >> /\ ~SizeMatch(d.size, variant_text) THEN 30 ELSE 0

FlavorPenalty(d, variant_text) ==
    IF d.flavor # << >> /\ ~IsSubstr(Lower(d.flavor), Lower(variant_text)) THEN 50 ELSE 0

\* max(1, int(expected_count * 0.1))
ScoreCountTolerance(expected_count) == Max(1, expected_count \div 10)

CountPenalty(d, variant_text) ==
    IF ~d.count.has THEN 0
    ELSE LET result_count == ExtractCount4(variant_text)
         IN IF result_count.has
            THEN IF Abs(d.count.v - result_count.v) > ScoreCountTolerance(d.count.v)
                 THEN 50 ELSE 0
            ELSE IF d.count.v > 10 THEN 30 ELSE 0

\* fuzz.token_sort_ratio(normalize_text(result_title), original_details['full_text'])
BaseScore(d, result_title) == token_sort_ratio(normalize_text(result_title), d.full_text)

\* the sum before the final min(100, ...)
TraditionalScore(d, variant, result_title) ==
    LET variant_text == normalize_text(result_title)
    IN ScoreAdd(BaseScore(d, result_title),
                BrandBonus(d, variant_text) + ModelBonus(d, variant_text)
                    + ColorBonus(d, variant_text) + LensBonus(d, variant_text)
                    - ModelPenalty(d, variant_text) - SizePenalty(d, variant_text)
                    - FlavorPenalty(d, variant_text) - CountPenalty(d, variant_text))

\* the outcome of a call: a number, or the exception the call raises
Returns(x) == [raised |-> "", v |-> x]
Raises(e) == [raised |-> e, v |-> ScoreInt(0)]

\* ml: the matcher's ml_enabled attribute.  __init__ does not create it: reading it
\* raises AttributeError.  When it is false, ml_config is not read.
calculate_match_score(ml, details, variant, result_title) ==
    IF ml = "unset" THEN Raises("AttributeError")
    ELSE Returns(ScoreMin(TraditionalScore(details, variant, result_title), 100))

(***************************************************************************)
(* ProductMatcher.find_best_match: the body of the main pass               *)
(*                                                                         *)
(* The body runs once for a (result, variant) pair.  It is a chain of      *)
(* stages over a record st:                                                *)
(*   kind   "go" (still running), "continue" (next variant), "break"       *)
(*          (next result), "raise" (the call ends with exception err)      *)
(*   score  the score of the pair, d  original_details (one stage writes   *)
(*   it), re  whether the function-local name re is bound: the import      *)
(*   statements inside find_best_match make re a local variable of the     *)
(*   whole function, unbound until one of them has run in this call.       *)
(* in is the pair: title, url, retailer, variant, text (full_result_text), *)
(* name (original_product_name), ml and threshold (the matcher's fields).  *)
(***************************************************************************)
Continue(st) == [st EXCEPT !.kind = "continue"]
Break(st) == [st EXCEPT !.kind = "break"]
\* an exception that is swallowed: the check that raised it is left and the pair goes on
RaiseIgnored(st, e) == st

\* an exception leaves find_best_match
Raise(st, e) == [st EXCEPT !.kind = "raise", !.err = e]

Reject(st) == [st EXCEPT !.kind = "continue", !.score = ScoreInt(0)]
RejectBreak(st) == [st EXCEPT !.kind = "break", !.score = ScoreInt(0)]

\* original_details = {} when no product name is given: every .get() is empty
NoDetails ==
    [brand |-> << >>, model |-> << >>, color |-> << >>, lens |-> << >>, size |-> << >>,
     weight |-> NoWeight, generation |-> << >>, transitions_color |-> << >>,
     prizm_color |-> << >>, frame_color |-> << >>, lens_color |-> << >>,
     lens_type |-> << >>, simple_lens_color |-> << >>, low_bridge_fit |-> FALSE,
     flavor |-> << >>, count |-> NoCount, full_text |-> << >>]

\* the matcher's driver: __init__ sets it to None and nothing calls set_driver
driver == "None"

NoPage == [full_title |-> << >>, description |-> << >>, specifications |-> << >>,
           full_text |-> << >>]

\* _fetch_product_page_details: {} without a driver
FetchProductPageDetails(url, retailer) == NoPage

\* full_result_text of a result: the normalized title, or what the product page gives
FullResultText(result) ==
    LET page_details == IF result.retailer \in {"amazon", "amazon-fresh"}
                        THEN FetchProductPageDetails(result.url, result.retailer)
                        ELSE NoPage
        result_lower == Lower(normalize_text(IF page_details.full_title # << >>
                                             THEN page_details.full_title
                                             ELSE result.title))
        text == IF page_details.full_text # << >> THEN page_details.full_text
                ELSE IF page_details.description # << >>
                THEN result_lower \o <<" ">> \o page_details.description
                ELSE result_lower
    IN IF page_details.specifications # << >>
       THEN text \o <<" ">> \o Lower(page_details.specifications)
       ELSE text

accessory_keywords ==
    << <<"h","i","b","l","o","k","s">>, <<"c","l","i","p","-","o","n">>, <<"c","l","i","p"," ","o","n">>, <<"a","t","t","a","c","h","m","e","n","t">>, <<"a","d","d","-","o","n">>, <<"a","d","d","o","n">> >>

\* the quick check on the title, before the variant loop
TitleAccessory(title) ==
    \/ IsSubstr(<<"h","i","b","l","o","k","s">>, Lower(title))
    \/ /\ IsSubstr(<<"p","o","l","a","r","i","z","e","d">>, Lower(title))
       /\ IsSubstr(<<"c","l","i","p","-","o","n">>, Lower(title)) \/ IsSubstr(<<"c","l","i","p"," ","o","n">>, Lower(title))

\* is position p of text a word boundary (\b)
IsWordChar(text, p) == CharAt(text, p, WordSet)
Boundary(text, p) == IsWordChar(text, p - 1) # IsWordChar(text, p)

\* re.search of  a\s+b  (bounded: with \b in front of a)
ThenSearch(text, a, b, bounded) ==
    \E p \in 1..Len(text) :
        /\ MatchAt(a, text, p)
        /\ bounded => Boundary(text, p)
        /\ CharAt(text, p + Len(a), SpaceSet)
        /\ MatchAt(b, text, SkipWs(text, p + Len(a)))

\* one of the four accessory_patterns of a keyword matches the text
AccessoryPattern(keyword, text) ==
    LET ls == Lower(text)
    IN \/ ThenSearch(ls, keyword, <<"f","o","r">>, TRUE)
       \/ ThenSearch(ls, keyword, <<"c","o","m","p","a","t","i","b","l","e">>, TRUE)
       \/ ThenSearch(ls, keyword, <<"c","l","i","p">>, FALSE)
       \/ ThenSearch(ls, keyword, <<"a","t","t","a","c","h","m","e","n","t">>, FALSE)
       \/ ThenSearch(ls, <<"p","o","l","a","r","i","z","e","d">>, keyword, FALSE)
       \/ ThenSearch(ls, keyword, <<"p","o","l","a","r","i","z","e","d">>, FALSE)

\* the accessory check on the full text; building the patterns needs re
FullTextAccessory(st, in) ==
    IF st.kind # "go" THEN st
    ELSE LET found == {k \in 1..Len(accessory_keywords) :
                          IsSubstr(accessory_keywords[k], Lower(in.text))}
         IN IF found = {} THEN st
            ELSE IF ~st.re THEN Raise(st, "UnboundLocalError")
            ELSE IF \E k \in found : AccessoryPattern(accessory_keywords[k], in.text)
            THEN Continue(st)
            ELSE st

HasPolarised(text) == IsSubstr(<<"p","o","l","a","r","i","s","e","d">>, text) \/ IsSubstr(<<"p","o","l","a","r","i","z","e","d">>, text)
HasLensWord(text) == HasPolarised(text) \/ IsSubstr(<<"g","r","a","d","i","e","n","t">>, text)

\* looking for Clear lenses: Polarised or Gradient in the URL or the title rejects
EarlyClear(st, in) ==
    IF st.kind # "go" THEN st
    ELSE IF /\ Lower(st.d.simple_lens_color) = <<"c","l","e","a","r">>
            /\ HasLensWord(Lower(in.url)) \/ HasLensWord(Lower(in.title))
    THEN Continue(st)
    ELSE st

size_words == << <<"l","a","r","g","e">>, <<"s","m","a","l","l">>, <<"m","e","d","i","u","m">>, <<"s","t","a","n","d","a","r","d">>, <<"o","v","e","r","s","i","z","e","d">> >>

\* "gen" followed by the number of the generation: the key word of a generation
GenKeyWord(generation) == <<"g","e","n">> \o GenDigits(Lower(generation))

\* the brand and core model words that the name of a result has to show
NameKeyWords(d, core_only) ==
    Filter(Words(Lower(d.brand)), LAMBDA w : Len(w) > 2)
        \o Filter(Words(Lower(d.model)),
                  LAMBDA w : Len(w) > 3 /\ (core_only => ~InList(w, size_words)))

\* max(1, int(len(key_words) * 0.7)) if len(key_words) > 2 else len(key_words)
MinRequired(n) == IF n > 2 THEN Max(1, (n * 7) \div 10) ELSE n

NameMatches(key_words, name) ==
    CountIf(key_words, LAMBDA w : IsSubstr(w, name)) >= MinRequired(Len(key_words))

\* the name check of the main pass; the generation key word needs re
NameOverlap(st, in) ==
    IF st.kind # "go" \/ in.name = << >> THEN st
    ELSE IF st.d.generation # << >> /\ ~st.re THEN Raise(st, "UnboundLocalError")
    ELSE LET key_words == NameKeyWords(st.d, TRUE)
                 \o (IF st.d.generation # << >> /\ GenDigits(Lower(st.d.generation)) # << >>
                     THEN <<GenKeyWord(st.d.generation)>> ELSE << >>)
         IN IF key_words # << >> /\ ~NameMatches(key_words, Lower(in.text))
            THEN Continue(st)
            ELSE st

\* the score of the pair: calculate_match_score when there are details, else the
\* similarity of the variant and the title
PairScore(in, d) ==
    IF in.name # << >>
    THEN calculate_match_score(in.ml, d, in.variant, in.title)
    ELSE Returns(token_sort_ratio(normalize_text(in.variant), normalize_text(in.title)))

\* what the call leaves in the locals, got being its value or its exception
Scored(st, in, got) ==
    IF in.name = << >> THEN [st EXCEPT !.score = got.v]
    ELSE IF got.raised # "" THEN Raise([st EXCEPT !.call = "raised"], got.raised)
    ELSE [st EXCEPT !.call = "returned", !.raw = got.v, !.score = got.v]

ScoreCall(st, in) ==
    IF st.kind # "go" THEN st ELSE Scored(st, in, PairScore(in, st.d))

\* the identifying key words of the original that can have known conflicts
OriginalKeywords(d) ==
    {w \in Range(Words(Lower(d.model))) : Len(w) > 3}
        \cup {w \in Range(Words(Lower(d.lens_type))) : Len(w) > 3}
        \cup (IF d.transitions_color = << >> THEN {}
              ELSE {<<"t","r","a","n","s","i","t","i","o","n","s">>}
                       \cup {w \in Range(Words(Lower(d.transitions_color))) : Len(w) > 2})
        \cup (IF d.prizm_color = << >> THEN {}
              ELSE {<<"p","r","i","z","m">>} \cup {w \in Range(Words(Lower(d.prizm_color))) : Len(w) > 2})
        \cup (IF d.simple_lens_color = << >> THEN {} ELSE {Lower(d.simple_lens_color)})
        \cup (IF d.generation = << >> THEN {} ELSE {GenKeyWord(d.generation)})
        \cup (IF d.size = << >> THEN {} ELSE {Lower(d.size)})

\* conflicting_keywords: a key word and the words that contradict it
conflicting_keywords ==
    << <<<<"v","a","n","g","u","a","r","d">>, <<<<"f","l","a","k">>, <<"g","a","s","c","a","n">>, <<"h","o","l","b","r","o","o","k">>, <<"r","a","d","a","r">>, <<"j","a","w","b","r","e","a","k","e","r">>>> >>,
       <<<<"f","l","a","k">>, <<<<"v","a","n","g","u","a","r","d">>, <<"g","a","s","c","a","n">>, <<"h","o","l","b","r","o","o","k">>>> >>,
       <<<<"w","a","y","f","a","r","e","r">>, <<<<"s","k","y","l","e","r">>, <<"a","v","i","a","t","o","r">>, <<"c","l","u","b","m","a","s","t","e","r">>>> >>,
       <<<<"s","k","y","l","e","r">>, <<<<"w","a","y","f","a","r","e","r">>, <<"a","v","i","a","t","o","r">>>> >>,
       <<<<"c","l","e","a","r">>, <<<<"p","o","l","a","r","i","s","e","d">>, <<"p","o","l","a","r","i","z","e","d">>, <<"t","r","a","n","s","i","t","i","o","n","s">>, <<"p","r","i","z","m">>, <<"g","r","a","d","i","e","n","t">>>> >>,
       <<<<"p","o","l","a","r","i","s","e","d">>, <<<<"c","l","e","a","r">>>> >>,
       <<<<"t","r","a","n","s","i","t","i","o","n","s">>, <<<<"c","l","e","a","r">>, <<"p","r","i","z","m">>>> >>,
       <<<<"p","r","i","z","m">>, <<<<"c","l","e","a","r">>, <<"t","r","a","n","s","i","t","i","o","n","s">>>> >>,
       <<<<"g","r","a","p","h","i","t","e">>, <<<<"s","a","p","p","h","i","r","e">>, <<"e","m","e","r","a","l","d">>, <<"a","m","e","t","h","y","s","t">>>> >>,
       <<<<"s","a","p","p","h","i","r","e">>, <<<<"g","r","a","p","h","i","t","e">>, <<"e","m","e","r","a","l","d">>, <<"a","m","e","t","h","y","s","t">>>> >> >>

\* a key word of the original is missing from the result and a word that
\* contradicts it is there
KeywordConflict(d, result_lower) ==
    \E c \in 1..Len(conflicting_keywords) :
        /\ conflicting_keywords[c][1] \in OriginalKeywords(d)
        /\ ~IsSubstr(conflicting_keywords[c][1], result_lower)
        /\ \E k \in 1..Len(conflicting_keywords[c][2]) :
               IsSubstr(conflicting_keywords[c][2][k], result_lower)

\* the special check of the '_simple_lens' marker
SimpleLensConflict(d, result_lower) ==
    /\ d.simple_lens_color # << >>
    /\ \/ /\ IsSubstr(<<"p","o","l","a","r","i","s","e","d">>, result_lower) \/ IsSubstr(<<"p","o","l","a","r","i","z","e","d">>, result_lower)
          /\ ~IsSubstr(<<"c","l","e","a","r">>, result_lower) \/ IsSubstr(<<"p","o","l","a","r","i","s","e","d">>, result_lower)
       \/ IsSubstr(<<"t","r","a","n","s","i","t","i","o","n","s">>, result_lower)
       \/ IsSubstr(<<"p","r","i","z","m">>, result_lower)

conflict_known_models ==
    << <<"v","a","n","g","u","a","r","d">>, <<"f","l","a","k">>, <<"w","a","y","f","a","r","e","r">>, <<"s","k","y","l","e","r">>, <<"h","e","a","d","l","i","n","e","r">>, <<"a","v","i","a","t","o","r">>,
       <<"c","l","u","b","m","a","s","t","e","r">>, <<"g","a","s","c","a","n">>, <<"h","o","l","b","r","o","o","k">>, <<"f","r","o","g","s","k","i","n","s">>, <<"r","a","d","a","r">>, <<"j","a","w","b","r","e","a","k","e","r">> >>

\* the first known model named by the expected model (0: none)
CoreExpected(d) ==
    FirstIdx(conflict_known_models, LAMBDA m : IsSubstr(m, Lower(d.model)))

\* another known model is in the result and the expected one is not
ModelConflict(d, result_lower) ==
    /\ d.model # << >>
    /\ CoreExpected(d) # 0
    /\ ~IsSubstr(conflict_known_models[CoreExpected(d)], result_lower)
    /\ \E k \in 1..Len(conflict_known_models) :
           /\ k # CoreExpected(d)
           /\ IsSubstr(conflict_known_models[k], result_lower)

\* the conflicting-keyword section; a score of 0 ends the pair
Conflicts(st, in) ==
    IF st.kind # "go" THEN st
    ELSE IF in.name = << >>
    THEN IF ScoreIs(st.score, 0) THEN Continue(st) ELSE st
    ELSE IF st.d.generation # << >> /\ ~st.re THEN Raise(st, "UnboundLocalError")
    ELSE LET result_lower == Lower(in.text)
             s1 == IF KeywordConflict(st.d, result_lower) THEN ScoreInt(0) ELSE st.score
         IN IF SimpleLensConflict(st.d, result_lower) THEN RejectBreak(st)
            ELSE LET s2 == IF ModelConflict(st.d, result_lower) THEN ScoreInt(0) ELSE s1
                 IN IF ScoreIs(s2, 0)
                    THEN IF st.d.model # << >> /\ CoreExpected(st.d) # 0
                         THEN RejectBreak(st)
                         ELSE Reject(st)
                    ELSE st

\* r'gen\s*1\b'
GenOneSearch(text) ==
    \E p \in 1..Len(text) :
        /\ MatchAt(<<"g","e","n">>, text, p)
        /\ CharAt(text, SkipWs(text, p + 3), {"1"})
        /\ Boundary(text, SkipWs(text, p + 3) + 1)

\* the generation check; both searches need re
GenerationCheck(st, in) ==
    IF st.kind # "go" \/ st.d.generation = << >> THEN st
    ELSE IF ~st.re THEN Raise(st, "UnboundLocalError")
    ELSE LET expected_gen == Lower(st.d.generation)
             digits == GenDigits(in.text)
         IN IF digits # << >>
            THEN IF <<"g","e","n"," ">> \o digits # expected_gen THEN Reject(st) ELSE st
            ELSE IF /\ IsSubstr(<<"g","e","n"," ","2">>, expected_gen) \/ IsSubstr(<<"g","e","n","2">>, expected_gen)
                    /\ GenOneSearch(in.text)
            THEN Reject(st)
            ELSE st

SizeCheck(st, in) ==
    IF st.kind # "go" \/ st.d.size = << >> THEN st
    ELSE IF ~SizeMatch(st.d.size, in.text) THEN Reject(st)
    ELSE st

\* re.search(word[(R)(TM)]?\s+([a-z]+), text, re.IGNORECASE), group 1
LensWordSearch(text, word) ==
    LET ls == Lower(text)
        ps == {p \in 1..Len(ls) :
                  /\ MatchAt(word, ls, p)
                  /\ CharAt(ls, MarkEnd(ls, p, word), SpaceSet)
                  /\ CharAt(ls, SkipWs(ls, MarkEnd(ls, p, word)), LowerSet)}
    IN IF ps = {} THEN NoMatch
       ELSE LET q == SkipWs(ls, MarkEnd(ls, MinOf(ps), word))
            IN Matched(Slice(text, q, RunEnd(ls, q, LowerSet)))

\* the first of three searches that matches
FirstMatch(m1, m2, m3) == IF m1.has THEN m1 ELSE IF m2.has THEN m2 ELSE m3

\* (?:\s*[/\)]|$) at position q
SlashEndAt(text, q) == CharAt(text, SkipWs(text, q), {"/", ")"}) \/ q = Len(text) + 1

\* the three transitions_patterns of the main pass, in order
ResultTransitions(text) ==
    FirstMatch(LensSearch(text, <<"t","r","a","n","s","i","t","i","o","n","s">>, LowerSet \cup SpaceSet,
                          LAMBDA q : \/ LensesAt(Lower(text), q)
                                     \/ CharAt(text, q, {",", ")"})
                                     \/ q = Len(text) + 1),
               LensSearch(text, <<"t","r","a","n","s","i","t","i","o","n","s">>, LowerSet \cup SpaceSet,
                          LAMBDA q : SlashEndAt(text, q)),
               LensWordSearch(text, <<"t","r","a","n","s","i","t","i","o","n","s">>))

\* the colour found in the result is the expected one: equal, or (an expected colour
\* of several words) every expected word occurs in it
SameLensColor(expected, found) ==
    \/ expected = found
    \/ /\ Len(Words(expected)) > 1
       /\ \A k \in 1..Len(Words(expected)) : IsSubstr(Words(expected)[k], found)

TransitionsCheck(st, in) ==
    IF st.kind # "go" \/ st.d.transitions_color = << >> THEN st
    ELSE IF ~IsSubstr(<<"t","r","a","n","s","i","t","i","o","n","s">>, in.text) THEN Reject(st)
    ELSE IF ~st.re THEN Raise(st, "UnboundLocalError")
    ELSE LET m == ResultTransitions(in.text)
         IN IF /\ m.has
               /\ SameLensColor(Lower(st.d.transitions_color), normalize_text(Strip(m.text)))
            THEN st
            ELSE Reject(st)

\* re.search(rf'\b{re.escape(word)}\b', text)
WordSearch(text, word) ==
    \E p \in 1..Len(text) :
        /\ MatchAt(word, text, p)
        /\ Boundary(text, p)
        /\ Boundary(text, p + Len(word))

HasTransitionsOrPrizm(text) == IsSubstr(<<"t","r","a","n","s","i","t","i","o","n","s">>, text) \/ IsSubstr(<<"p","r","i","z","m">>, text)

\* looking for a simple lens colour: no Transitions or Prizm, and the colour is there
SimpleColorCheck(st, in) ==
    IF st.kind # "go" \/ st.d.simple_lens_color = << >> THEN st
    ELSE IF HasTransitionsOrPrizm(in.text) THEN Reject(st)
    ELSE IF ~st.re THEN Raise(st, "UnboundLocalError")
    ELSE IF ~WordSearch(in.text, Lower(st.d.simple_lens_color)) THEN Reject(st)
    ELSE st

\* re.search(r',\s*([a-z]+)\s+lens', text)
CommaColorLens(text) ==
    \E p \in 1..Len(text) :
        /\ CharAt(text, p, {","})
        /\ CharAt(text, SkipWs(text, p + 1), LowerSet)
        /\ CharAt(text, RunEnd(text, SkipWs(text, p + 1), LowerSet) + 1, SpaceSet)
        /\ MatchAt(<<"l","e","n","s">>, text,
                   SkipWs(text, RunEnd(text, SkipWs(text, p + 1), LowerSet) + 1))

\* the first word of the expected colour stands in the result, but not within 50
\* characters after "transitions"
StandaloneColor(expected_trans, text) ==
    LET color_word == IF Words(expected_trans) # << >> THEN Words(expected_trans)[1]
                      ELSE expected_trans
    IN /\ IsSubstr(color_word, text)
       /\ \/ Find(<<"t","r","a","n","s","i","t","i","o","n","s">>, text) = 0
          \/ Find(color_word, text) < Find(<<"t","r","a","n","s","i","t","i","o","n","s">>, text)
          \/ Find(color_word, text) > Find(<<"t","r","a","n","s","i","t","i","o","n","s">>, text) + 50

\* looking for Transitions or Prizm: a simple colour lens is rejected
NotSimpleCheck(st, in) ==
    IF st.kind # "go" \/ (st.d.transitions_color = << >> /\ st.d.prizm_color = << >>) THEN st
    ELSE IF ~st.re THEN Raise(st, "UnboundLocalError")
    ELSE IF CommaColorLens(in.text) /\ ~HasTransitionsOrPrizm(in.text) THEN Reject(st)
    ELSE IF /\ st.d.transitions_color # << >>
            /\ StandaloneColor(Lower(st.d.transitions_color), in.text)
    THEN Reject(st)
    ELSE st

\* prizm_color_aliases: a colour and its other names
prizm_color_aliases ==
    << <<<<"2","4","k">>, <<<<"g","o","l","d">>, <<"2","4","k"," ","g","o","l","d">>, <<"2","4"," ","k","a","r","a","t">>>> >>,
       <<<<"2","4","k"," ","g","o","l","d">>, <<<<"g","o","l","d">>, <<"2","4","k">>, <<"2","4"," ","k","a","r","a","t">>>> >>,
       <<<<"g","o","l","d">>, <<<<"2","4","k">>, <<"2","4","k"," ","g","o","l","d">>, <<"2","4"," ","k","a","r","a","t">>>> >>,
       <<<<"b","l","a","c","k">>, <<<<"d","a","r","k">>, <<"j","e","t"," ","b","l","a","c","k">>>> >>,
       <<<<"s","a","p","p","h","i","r","e">>, <<<<"b","l","u","e"," ","s","a","p","p","h","i","r","e">>>> >> >>

\* expected_prizm_variants: the colour, its aliases, and the colours it is an alias of
PrizmVariants(expected_prizm) ==
    {expected_prizm}
        \cup UNION {Range(prizm_color_aliases[k][2]) :
                        k \in {h \in 1..Len(prizm_color_aliases) :
                                   prizm_color_aliases[h][1] = expected_prizm}}
        \cup {prizm_color_aliases[k][1] :
                  k \in {h \in 1..Len(prizm_color_aliases) :
                             InList(expected_prizm, prizm_color_aliases[h][2])}}

\* the three prizm_patterns, in order
ResultPrizm(text) ==
    FirstMatch(LensSearch(text, <<"p","r","i","z","m">>, LowerSet \cup DigitSet \cup SpaceSet,
                          LAMBDA q : \/ CharAt(text, SkipWs(text, q), {",", ")"})
                                     \/ q = Len(text) + 1),
               LensSearch(text, <<"p","r","i","z","m">>, LowerSet \cup DigitSet \cup SpaceSet,
                          LAMBDA q : SlashEndAt(text, q)),
               LensWordSearch(text, <<"p","r","i","z","m">>))

PrizmColorMatches(expected_prizm, found) ==
    \/ expected_prizm = found
    \/ found \in PrizmVariants(expected_prizm)
    \/ \E a \in PrizmVariants(expected_prizm) :
           Len(a) > 3 /\ (IsSubstr(a, found) \/ IsSubstr(found, a))

PrizmCheck(st, in) ==
    IF st.kind # "go" \/ st.d.prizm_color = << >> THEN st
    ELSE IF ~IsSubstr(<<"p","r","i","z","m">>, in.text) THEN Reject(st)
    ELSE IF ~st.re THEN Raise(st, "UnboundLocalError")
    ELSE LET m == ResultPrizm(in.text)
             expected_prizm == Lower(st.d.prizm_color)
         IN IF m.has
            THEN IF PrizmColorMatches(expected_prizm, normalize_text(Strip(m.text)))
                 THEN st ELSE Reject(st)
            ELSE IF \E a \in PrizmVariants(expected_prizm) : IsSubstr(a, in.text)
                 THEN st ELSE Reject(st)

\* original_details['simple_lens_color'] = original_details['lens_color']
CopyLensColor(st, in) ==
    IF st.kind # "go" THEN st
    ELSE IF st.d.lens_color # << >> /\ st.d.simple_lens_color = << >>
    THEN [st EXCEPT !.d.simple_lens_color = st.d.lens_color]
    ELSE st

\* re.search(rf'\b{word}\s+[a-z\s]*lens', text, re.IGNORECASE)
WordThenLens(ls, word) ==
    \E p \in 1..Len(ls) :
        /\ MatchAt(word, ls, p)
        /\ Boundary(ls, p)
        /\ CharAt(ls, p + Len(word), SpaceSet)
        /\ \E r \in (p + Len(word) + 1)..Len(ls) :
               /\ MatchAt(<<"l","e","n","s">>, ls, r)
               /\ \A k \in (p + Len(word) + 1)..(r - 1) : ls[k] \in LowerSet \cup SpaceSet

\* re.search(rf'\([^)]*{word}[^)]*\)', text, re.IGNORECASE)
ParenSearch(ls, word) ==
    \E a \in 1..Len(ls) : \E b \in (a + 1)..Len(ls) :
        /\ ls[a] = "(" /\ ls[b] = ")"
        /\ \A k \in (a + 1)..(b - 1) : ls[k] # ")"
        /\ \E p \in (a + 1)..(b - Len(word)) : MatchAt(word, ls, p)

\* the lens_type_patterns of a lens key word
LensTypePattern(ls, lens_keyword) ==
    \/ WordThenLens(ls, lens_keyword)
    \/ IsSubstr(<<"/">> \o lens_keyword, ls)
    \/ ParenSearch(ls, lens_keyword)
    \/ ThenSearch(ls, lens_keyword, <<"g","r","a","d","i","e","n","t">>, FALSE)
    \/ ThenSearch(ls, <<"g","r","a","d","i","e","n","t">>, lens_keyword, FALSE)

\* the lens_color_patterns of another colour
LensColorPattern(ls, other_color) ==
    \/ ThenSearch(ls, other_color, <<"l","e","n","s">>, TRUE)
    \/ IsSubstr(<<"/">> \o other_color, ls)
    \/ ParenSearch(ls, other_color)

clear_lens_keywords == << <<"p","o","l","a","r","i","s","e","d">>, <<"p","o","l","a","r","i","z","e","d">>, <<"g","r","a","d","i","e","n","t">>, <<"t","r","a","n","s","i","t","i","o","n","s">>, <<"p","r","i","z","m">> >>

other_colors ==
    << <<"g","r","e","e","n">>, <<"b","l","a","c","k">>, <<"g","r","e","y">>, <<"g","r","a","y">>, <<"b","l","u","e">>, <<"r","e","d">>, <<"y","e","l","l","o","w">>, <<"o","r","a","n","g","e">>,
       <<"p","u","r","p","l","e">>, <<"p","i","n","k">>, <<"b","r","o","w","n">>, <<"s","a","p","p","h","i","r","e">>, <<"e","m","e","r","a","l","d">>, <<"a","m","e","t","h","y","s","t">>, <<"g","r","a","p","h","i","t","e">> >>

\* looking for Clear lenses: the lens key words and the other colours found in the text.
\* "raise": a pattern is built without re; "reject"; "pass"
ClearLensVerdict(st, in) ==
    LET ls == Lower(in.text)
        found == {k \in 1..Len(clear_lens_keywords) : IsSubstr(clear_lens_keywords[k], in.text)}
        colors == {k \in 1..Len(other_colors) : IsSubstr(other_colors[k], in.text)}
    IN IF HasPolarised(Lower(in.title)) THEN "reject"
       ELSE IF found # {} /\ MinOf(found) <= 2 THEN "reject"
       ELSE IF found # {} /\ ~st.re THEN "raise"
       ELSE IF \E k \in found : LensTypePattern(ls, clear_lens_keywords[k]) THEN "reject"
       ELSE IF ~ScoreGt(st.score, ScoreInt(0)) \/ colors = {} THEN "pass"
       ELSE IF ~st.re THEN "raise"
       ELSE IF \E k \in colors : LensColorPattern(ls, other_colors[k]) THEN "reject"
       ELSE "pass"

\* the strict check of the simple lens colour
StrictSimpleCheck(st, in) ==
    IF st.kind # "go" \/ st.d.simple_lens_color = << >> THEN st
    ELSE IF HasTransitionsOrPrizm(in.text) THEN Reject(st)
    ELSE IF ~st.re THEN Raise(st, "UnboundLocalError")
    ELSE IF ~WordSearch(in.text, Lower(st.d.simple_lens_color)) THEN Reject(st)
    ELSE IF Lower(st.d.simple_lens_color) # <<"c","l","e","a","r">> THEN st
    ELSE IF ClearLensVerdict(st, in) = "raise" THEN Raise(st, "UnboundLocalError")
    ELSE IF ClearLensVerdict(st, in) = "reject" THEN Reject(st)
    ELSE st

\* r'polarised[(R)(TM)\s]*gradient[(R)(TM)\s]*graphite|polarized[...]*gradient[...]*graphite'
CombinedSearch(text) ==
    LET ls == Lower(text)
        fill == SpaceSet \cup {"REG", "TM"}
    IN \E p \in 1..Len(ls) :
           /\ MatchAt(<<"p","o","l","a","r","i","s","e","d">>, ls, p) \/ MatchAt(<<"p","o","l","a","r","i","z","e","d">>, ls, p)
           /\ MatchAt(<<"g","r","a","d","i","e","n","t">>, ls, RunEnd(ls, p + 9, fill) + 1)
           /\ MatchAt(<<"g","r","a","p","h","i","t","e">>, ls, RunEnd(ls, RunEnd(ls, p + 9, fill) + 9, fill) + 1)

\* the title or text names Polarised without Gradient, or both without Graphite
LensTypeIncomplete(text) ==
    /\ HasPolarised(text)
    /\ \/ ~IsSubstr(<<"g","r","a","d","i","e","n","t">>, text)
       \/ ~IsSubstr(<<"g","r","a","p","h","i","t","e">>, text)

IsPolarisedGradientGraphite(expected_lens_type) ==
    \/ IsSubstr(<<"p","o","l","a","r","i","s","e","d"," ","g","r","a","d","i","e","n","t"," ","g","r","a","p","h","i","t","e">>, expected_lens_type)
    \/ IsSubstr(<<"p","o","l","a","r","i","z","e","d"," ","g","r","a","d","i","e","n","t"," ","g","r","a","p","h","i","t","e">>, expected_lens_type)

\* a lens type of several words
LongLensType(st, in) ==
    LET expected_lens_type == Lower(st.d.lens_type)
        key_words == Filter(Words(expected_lens_type), LAMBDA w : Len(w) > 3)
    IN IF \E k \in 1..Len(key_words) : ~IsSubstr(key_words[k], in.text) THEN Reject(st)
       ELSE IF ~IsPolarisedGradientGraphite(expected_lens_type) THEN st
       ELSE IF /\ ~IsPolarisedGradientGraphite(Lower(in.title))
               /\ LensTypeIncomplete(Lower(in.title))
       THEN Reject(st)
       ELSE IF ~st.re THEN Raise(st, "UnboundLocalError")
       ELSE IF ~CombinedSearch(in.text) /\ LensTypeIncomplete(in.text) THEN Reject(st)
       ELSE st

\* a lens type of one word: it has to be in the lens text of the result
ShortLensType(st, in) ==
    IF ~st.re THEN Raise(st, "UnboundLocalError")
    ELSE LET m == LensTextSearch(in.text)
         IN IF m.has
            THEN IF IsSubstr(Lower(st.d.lens_type), normalize_text(Strip(m.text)))
                 THEN st ELSE Reject(st)
            ELSE IF IsSubstr(Lower(st.d.lens_type), in.text) THEN st ELSE Reject(st)

LensTypeCheck(st, in) ==
    IF st.kind # "go" \/ st.d.lens_type = << >> THEN st
    ELSE IF Len(Words(Lower(st.d.lens_type))) > 1 THEN LongLensType(st, in)
    ELSE ShortLensType(st, in)

finish_words ==
    << <<"s","h","i","n","y">>, <<"m","a","t","t","e">>, <<"g","l","o","s","s","y">>, <<"c","h","a","l","k","y">>, <<"m","y","s","t","i","c">>, <<"c","o","s","m","i","c">>, <<"a","s","t","e","r","o","i","d">> >>

\* a frame colour of several words is rejected for a different finish; a missing
\* frame colour of one word costs 10
FrameColorCheck(st, in) ==
    IF st.kind # "go" \/ st.d.frame_color = << >> THEN st
    ELSE LET expected_frame == Lower(st.d.frame_color)
             frame_words == Words(expected_frame)
             expected_finish == Filter(frame_words, LAMBDA w : InList(w, finish_words))
             result_finish == Filter(finish_words, LAMBDA w : IsSubstr(w, in.text))
         IN IF Len(frame_words) > 1
            THEN IF /\ \E k \in 1..Len(frame_words) :
                            Len(frame_words[k]) > 2 /\ ~IsSubstr(frame_words[k], in.text)
                    /\ expected_finish # << >>
                    /\ result_finish # << >>
                    /\ expected_finish # result_finish
                 THEN Reject(st)
                 ELSE st
            ELSE IF ~IsSubstr(expected_frame, in.text)
                 THEN [st EXCEPT !.score = ScoreAdd(st.score, -10)]
                 ELSE st

LowBridgeFitCheck(st, in) ==
    IF st.kind # "go" \/ ~st.d.low_bridge_fit THEN st
    ELSE IF ~IsSubstr(<<"l","o","w"," ","b","r","i","d","g","e">>, Lower(in.text)) THEN Reject(st)
    ELSE st

\* str.isdigit() of the model without its blanks
IsDigits(s) == s # << >> /\ \A k \in 1..Len(s) : s[k] \in DigitSet

IsSignificantModel(model) ==
    /\ Len(Strip(model)) > 2
    /\ ~IsDigits(Filter(Strip(model), LAMBDA c : c # " "))

model_modifiers ==
    << <<"g","e","n">>, <<"2">>, <<"g","e","n","2">>, <<"l","o","w">>, <<"b","r","i","d","g","e">>, <<"f","i","t">>, <<"l","a","r","g","e">>, <<"(","g","e","n">>, <<"g","e","n",")">>, <<"m","e","t","a">> >>

\* the words of the model without the modifiers and the very short words
CoreModelWords(model) ==
    Filter(Words(Lower(model)), LAMBDA w : ~InList(w, model_modifiers) /\ Len(w) > 2)

CoreModel(model) ==
    IF CoreModelWords(model) # << >> THEN Join(CoreModelWords(model)) ELSE Lower(model)

ExactModelMatch(model, text) ==
    IsSubstr(CoreModel(model), text) \/ IsSubstr(Lower(model), text)

\* the number of core model words longer than 3 that the text shows
MatchedKeywords(model, text) ==
    CountIf(CoreModelWords(model), LAMBDA w : Len(w) > 3 /\ IsSubstr(w, text))

ModelKeywords(model) == Filter(CoreModelWords(model), LAMBDA w : Len(w) > 3)

main_known_models ==
    << <<"w","a","y","f","a","r","e","r">>, <<"s","k","y","l","e","r">>, <<"h","e","a","d","l","i","n","e","r">>, <<"v","a","n","g","u","a","r","d">>, <<"a","v","i","a","t","o","r">>, <<"c","l","u","b","m","a","s","t","e","r">>,
       <<"g","a","s","c","a","n">>, <<"h","o","l","b","r","o","o","k">>, <<"f","r","o","g","s","k","i","n","s">>, <<"r","a","d","a","r">>, <<"j","a","w","b","r","e","a","k","e","r">>, <<"f","l","a","k">>,
       <<"f","l","a","k"," ","2",".","0">>, <<"f","l","a","k"," ","x","l">> >>

\* a known model other than the expected one is in the text
OtherModelIn(known_models, model, text) ==
    \E k \in 1..Len(known_models) :
        /\ known_models[k] # CoreModel(model)
        /\ ~IsSubstr(known_models[k], Lower(model))
        /\ IsSubstr(known_models[k], text)

\* the score after the two penalties for a model that the text does not show
ModelPenalties(score, model, text) ==
    LET partial_model_match ==
            MatchedKeywords(model, text) >= Max(1, Len(ModelKeywords(model)))
        s1 == IF /\ ScoreGe(score, 60)
                 /\ ~ExactModelMatch(model, text)
                 /\ ~partial_model_match
              THEN ScoreAdd(score, -50) ELSE score
    IN IF ScoreGe(s1, 70) /\ ~ExactModelMatch(model, text) THEN ScoreAdd(s1, -40) ELSE s1

\* model validation: a wrong model sets the score to 0 (the pair goes on), a model
\* that is not found lowers a high score
ModelValidation(st, in) ==
    IF st.kind # "go" \/ st.d.model = << >> \/ ~IsSignificantModel(st.d.model) THEN st
    ELSE IF /\ OtherModelIn(main_known_models, st.d.model, in.text)
            /\ ~ExactModelMatch(st.d.model, in.text)
            /\ MatchedKeywords(st.d.model, in.text) = 0
    THEN [st EXCEPT !.score = ScoreInt(0)]
    ELSE [st EXCEPT !.score = ModelPenalties(st.score, st.d.model, in.text)]

\* a score from the threshold up to 65 needs the generation, Transitions and the lens
\* colour in the normalized title; the generation is searched with re
LowScoreCheck(st, in) ==
    LET result_lower == Lower(normalize_text(in.title))
    IN IF st.kind # "go" THEN st
       ELSE IF ~ScoreGe(st.score, in.threshold) \/ ~ScoreLt(st.score, 65) THEN st
       ELSE IF st.d.generation # << >> /\ ~st.re THEN Raise(st, "UnboundLocalError")
       ELSE IF \/ /\ st.d.generation # << >>
                  /\ \/ GenDigits(result_lower) = << >>
                     \/ <<"g","e","n"," ">> \o GenDigits(result_lower) # Lower(st.d.generation)
               \/ /\ st.d.transitions_color # << >>
                  /\ ~IsSubstr(<<"t","r","a","n","s","i","t","i","o","n","s">>, result_lower)
               \/ /\ st.d.lens_color # << >>
                  /\ ~IsSubstr(Lower(st.d.lens_color), result_lower)
       THEN Continue(st)
       ELSE st

BrandCheck(st, in) ==
    IF st.kind # "go" \/ st.d.brand = << >> THEN st
    ELSE IF ~IsSubstr(Lower(st.d.brand), Lower(in.text)) THEN Continue(st)
    ELSE st

\* the weight of the title has to be the weight of the original
WeightCheck(st, in) ==
    IF st.kind # "go" \/ ~st.d.weight.has THEN st
    ELSE IF ~extract_weight(in.title).has THEN Continue(st)
    ELSE IF WeightDiffers(st.d.weight, extract_weight(in.title)) THEN Continue(st)
    ELSE st

FlavorCheck(st, in) ==
    IF st.kind # "go" \/ st.d.flavor = << >> THEN st
    ELSE IF ~IsSubstr(Lower(st.d.flavor), Lower(in.text)) THEN Continue(st)
    ELSE st

\* max(2, int(expected * 0.10)) above 20, max(2, int(expected * 0.15)) up to 20
CountTolerance(expected_count) ==
    IF expected_count > 20 THEN Max(2, expected_count \div 10)
    ELSE Max(2, (expected_count * 15) \div 100)

\* the count validation: "import re" binds re; a count found in the text has to be
\* within the tolerance, a missing count is let through
CountCheck(st, in) ==
    IF st.kind # "go" \/ ~st.d.count.has THEN st
    ELSE LET result_count == ExtractCount4(Lower(in.text))
             bound == [st EXCEPT !.re = TRUE]
         IN IF /\ result_count.has
               /\ Abs(st.d.count.v - result_count.v) > CountTolerance(st.d.count.v)
            THEN Continue(bound)
            ELSE bound

\* the checks of the body of the main pass in the order of the code
main_stages ==
    << "accessory", "clear_early", "name", "score", "conflict", "generation", "size",
       "transitions", "simple_color", "not_simple", "prizm", "lens_color", "clear",
       "lens_type", "frame", "low_bridge_fit", "model", "low_score", "brand", "weight",
       "flavor", "count" >>

MainStage(k, st, in) ==
    CASE k = 1 -> FullTextAccessory(st, in)
      [] k = 2 -> EarlyClear(st, in)
      [] k = 3 -> NameOverlap(st, in)
      [] k = 4 -> ScoreCall(st, in)
      [] k = 5 -> Conflicts(st, in)
      [] k = 6 -> GenerationCheck(st, in)
      [] k = 7 -> SizeCheck(st, in)
      [] k = 8 -> TransitionsCheck(st, in)
      [] k = 9 -> SimpleColorCheck(st, in)
      [] k = 10 -> NotSimpleCheck(st, in)
      [] k = 11 -> PrizmCheck(st, in)
      [] k = 12 -> CopyLensColor(st, in)
      [] k = 13 -> StrictSimpleCheck(st, in)
      [] k = 14 -> LensTypeCheck(st, in)
      [] k = 15 -> FrameColorCheck(st, in)
      [] k = 16 -> LowBridgeFitCheck(st, in)
      [] k = 17 -> ModelValidation(st, in)
      [] k = 18 -> LowScoreCheck(st, in)
      [] k = 19 -> BrandCheck(st, in)
      [] k = 20 -> WeightCheck(st, in)
      [] k = 21 -> FlavorCheck(st, in)
      [] OTHER -> CountCheck(st, in)

\* the body for one pair from check k on; the check that ends the pair is noted
RECURSIVE MainFrom(_, _, _)
MainFrom(k, st, in) ==
    IF k > Len(main_stages) THEN st
    ELSE LET Then(next) == IF next.kind # "go" THEN [next EXCEPT !.why = main_stages[k]]
                           ELSE MainFrom(k + 1, next, in)
         IN Then(MainStage(k, st, in))

MainBody(st, in) == MainFrom(1, st, in)

\* the final validation of a pair that beats the best score
IsValidFinalMatch(d, result, text) ==
    LET title == Lower(result.title)
        url == Lower(result.url)
        expected_color == Lower(d.simple_lens_color)
    IN /\ d.simple_lens_color # << >> =>
              IF expected_color = <<"c","l","e","a","r">>
              THEN /\ IsSubstr(<<"c","l","e","a","r">>, title) \/ IsSubstr(<<"c","l","e","a","r">>, url)
                   /\ ~HasLensWord(title)
              ELSE IsSubstr(expected_color, title) \/ IsSubstr(expected_color, url)
       /\ d.transitions_color # << >> =>
              \/ IsSubstr(<<"t","r","a","n","s","i","t","i","o","n","s">>, title)
              \/ IsSubstr(<<"t","r","a","n","s","i","t","i","o","n","s">>, url)
              \/ IsSubstr(<<"t","r","a","n","s","i","t","i","o","n","s">>, Lower(text))

(***************************************************************************)
(* find_best_match: the relaxed fallback pass                              *)
(***************************************************************************)
\* search_results[:10]
FallbackLimit == 10

\* a fallback that goes over the whole list
WholeList(results) == Len(results)

\* search_results[:10]: the number of results the fallback goes over
FallbackSlice(results) == Min(FallbackLimit, Len(results))

FallbackTitle(in) == Lower(normalize_text(in.title))

\* the generation check of the fallback: only a different stated generation rejects
FallbackGeneration(st, in) ==
    IF st.kind # "go" \/ st.d.generation = << >> THEN st
    ELSE IF ~st.re THEN Raise(st, "UnboundLocalError")
    ELSE IF /\ GenDigits(FallbackTitle(in)) # << >>
            /\ <<"g","e","n"," ">> \o GenDigits(FallbackTitle(in)) # Lower(st.d.generation)
    THEN Continue(st)
    ELSE st

\* a fallback without the Transitions check
FallbackWithoutTransitions(st, in) == st

\* the Transitions check of the fallback: one pattern on the normalized title
FallbackTransitions(st, in) ==
    IF st.kind # "go" \/ st.d.transitions_color = << >> THEN st
    ELSE IF ~IsSubstr(<<"t","r","a","n","s","i","t","i","o","n","s">>, FallbackTitle(in)) THEN Continue(st)
    ELSE IF ~st.re THEN Raise(st, "UnboundLocalError")
    ELSE LET m == TransitionsSearch(FallbackTitle(in))
         IN IF /\ m.has
               /\ SameLensColor(Lower(st.d.transitions_color), normalize_text(Strip(m.text)))
            THEN st
            ELSE Continue(st)

FallbackSimpleColor(st, in) ==
    IF st.kind # "go" \/ st.d.simple_lens_color = << >> THEN st
    ELSE IF \/ IsSubstr(<<"t","r","a","n","s","i","t","i","o","n","s">>, FallbackTitle(in))
            \/ IsSubstr(<<"p","r","i","z","m">>, FallbackTitle(in))
    THEN Continue(st)
    ELSE st

FallbackSize(st, in) ==
    IF st.kind # "go" \/ st.d.size = << >> THEN st
    ELSE IF ~SizeMatch(st.d.size, normalize_text(in.title)) THEN Continue(st)
    ELSE st

\* the name check of the fallback: every model word longer than 3 is a key word
FallbackName(st, in) ==
    IF st.kind # "go" \/ in.name = << >> THEN st
    ELSE IF st.d.generation # << >> /\ ~st.re THEN Raise(st, "UnboundLocalError")
    ELSE LET key_words == NameKeyWords(st.d, FALSE)
                 \o (IF st.d.generation # << >> /\ GenDigits(Lower(st.d.generation)) # << >>
                     THEN <<GenKeyWord(st.d.generation)>> ELSE << >>)
         IN IF key_words # << >> /\ ~NameMatches(key_words, FallbackTitle(in))
            THEN Continue(st)
            ELSE st

fallback_stages == << "score", "generation", "transitions", "simple_color", "size", "name" >>

FallbackStage(k, st, in) ==
    CASE k = 1 -> ScoreCall(st, in)
      [] k = 2 -> FallbackGeneration(st, in)
      [] k = 3 -> FallbackTransitions(st, in)
      [] k = 4 -> FallbackSimpleColor(st, in)
      [] k = 5 -> FallbackSize(st, in)
      [] OTHER -> FallbackName(st, in)

RECURSIVE FallbackFrom(_, _, _)
FallbackFrom(k, st, in) ==
    IF k > Len(fallback_stages) THEN st
    ELSE LET Then(next) == IF next.kind # "go" THEN [next EXCEPT !.why = fallback_stages[k]]
                           ELSE FallbackFrom(k + 1, next, in)
         IN Then(FallbackStage(k, st, in))

FallbackBody(st, in) == FallbackFrom(1, st, in)

\* brand_match: the brand is in the normalized title, or no brand was extracted
FallbackBrandMatch(d, result_lower) ==
    d.brand = << >> \/ IsSubstr(Lower(d.brand), result_lower)

fallback_known_models ==
    << <<"w","a","y","f","a","r","e","r">>, <<"s","k","y","l","e","r">>, <<"h","e","a","d","l","i","n","e","r">>, <<"v","a","n","g","u","a","r","d">>, <<"a","v","i","a","t","o","r">>, <<"c","l","u","b","m","a","s","t","e","r">>,
       <<"g","a","s","c","a","n">>, <<"h","o","l","b","r","o","o","k">>, <<"f","r","o","g","s","k","i","n","s">>, <<"r","a","d","a","r">>, <<"j","a","w","b","r","e","a","k","e","r">> >>

\* wrong_model_in_fallback
FallbackWrongModel(d, result_lower) ==
    /\ d.model # << >>
    /\ OtherModelIn(fallback_known_models, d.model, result_lower)
    /\ ~IsSubstr(CoreModel(d.model), result_lower)
    /\ MatchedKeywords(d.model, result_lower) = 0

\* model_match: exact, or at least half of the model key words (one at least)
FallbackModelMatch(d, result_lower) ==
    \/ IsSubstr(Lower(d.model), result_lower)
    \/ IsSubstr(CoreModel(d.model), result_lower)
    \/ /\ ModelKeywords(d.model) # << >>
       /\ 2 * MatchedKeywords(d.model, result_lower)
              >= Max(2, Len(ModelKeywords(d.model)))

\* the score of the fallback after the small penalty for a model that is missing
FallbackScore(score, d, result_lower) ==
    IF /\ d.model # << >>
       /\ ~FallbackWrongModel(d, result_lower)
       /\ ~FallbackModelMatch(d, result_lower)
    THEN ScoreAdd(score, -10)
    ELSE score

\* the fallback takes the pair as the best
FallbackAccepts(score, best, d, result_lower) ==
    /\ ScoreGt(score, best)
    /\ ScoreGe(score, 70)
    /\ ~FallbackWrongModel(d, result_lower)
    /\ FallbackBrandMatch(d, result_lower)
    /\ ScoreGe(FallbackScore(score, d, result_lower), 70)

(***************************************************************************)
(* find_best_match: the terminal acceptance gate                           *)
(***************************************************************************)
MinimumScore == 70

\* a gate that lets every score through
GateWithoutScore(score) == TRUE

\* best_score < minimum_score returns None
GateScore(score) == ScoreGe(score, MinimumScore)

\* a gate that does not look for the brand again
GateWithoutBrand(d, title) == TRUE

\* the brand has to be in the title of the best match
GateBrand(d, title) == d.brand # << >> => IsSubstr(Lower(d.brand), Lower(title))

GateFlavor(d, title) == d.flavor # << >> => IsSubstr(Lower(d.flavor), Lower(title))

\* the three count_patterns of the gate: r'(\d+)\s*ct', r'(\d+)\s*count',
\* r'pack\s*of\s*(\d+)'
ExtractCount3(text) ==
    LET ls == Lower(text)
    IN IF CountByDigitsThen(ls, <<"c","t">>).has THEN CountByDigitsThen(ls, <<"c","t">>)
       ELSE IF CountByDigitsThen(ls, <<"c","o","u","n","t">>).has THEN CountByDigitsThen(ls, <<"c","o","u","n","t">>)
       ELSE CountByPackOf(ls)

SignificantCount == 10

GateCount(d, title) ==
    (d.count.has /\ d.count.v > SignificantCount /\ ExtractCount3(title).has)
        => Abs(d.count.v - ExtractCount3(title).v) <= CountTolerance(d.count.v)

\* a gate that does not look at the weight again
GateWithoutWeight(d, title) == TRUE

\* the weight of the title has to be the weight of the description, to 0.01 oz
GateWeight(d, title) ==
    d.weight.has => /\ extract_weight(title).has
                    /\ ~WeightDiffers(d.weight, extract_weight(title))

\* all_attributes_match
AllAttributesMatch(d, title) ==
    GateBrand(d, title) /\ GateFlavor(d, title) /\ GateCount(d, title) /\ GateWeight(d, title)

(***************************************************************************)
(* The matcher and its callers                                             *)
(***************************************************************************)
\* the longest candidate list and the number of calls on the same objects
MaxCands == 2
MaxCalls == 2

\* fuzzy_threshold: config.get('fuzzy_threshold', 60), the configuration file or the
\* command line
Thresholds == {60, 70, 90}

\* self.ml_enabled: __init__ does not assign it ("unset"); a host that assigns False
\* to it has the matcher score with the traditional method ("false")
MlStates == {"unset", "false"}

\* the lists of at most MaxCands different products of a pool, in every order
Lists(pool) ==
    UNION {{[k \in 1..n |-> pool[f[k]]] :
               f \in {g \in [1..n -> 1..Len(pool)] :
                         \A a, b \in 1..n : a # b => g[a] # g[b]}} :
           n \in 0..Min(MaxCands, Len(pool))}

\* a list longer than the slice of the fallback: FallbackLimit results with the title of
\* the last product of the pool, each with a URL of its own, and the first product of
\* the pool after them
LongList(pool) ==
    [k \in 1..(FallbackLimit + 1) |->
        IF k <= FallbackLimit
        THEN [pool[Len(pool)] EXCEPT !.url = page \o [i \in 1..k |-> "a"]]
        ELSE pool[1]]

\* the scenarios whose search has given such a list
LongScenarios == {1}

\* the lists of results a search of scenario s can have given
ResultLists(s) ==
    Lists(Scenarios[s].pool)
        \cup (IF s \in LongScenarios THEN {LongList(Scenarios[s].pool)} ELSE {})

\* SearchResult: url, title, retailer, variant = "", score = 0.0
SearchResult(product) ==
    [url |-> product.url, title |-> product.title, retailer |-> product.retailer,
     variant |-> << >>, score |-> ScoreInt(0)]

Pending == [kind |-> "pending", index |-> 0, score |-> ScoreInt(0), variant |-> << >>,
            err |-> ""]
ReturnsNone == [Pending EXCEPT !.kind = "none"]
RaisesError(e) == [Pending EXCEPT !.kind = "raised", !.err = e]
ReturnsResult(i, score, variant) ==
    [Pending EXCEPT !.kind = "returned", !.index = i, !.score = score, !.variant = variant]

VARIABLES
    original_product_name,  \* the arguments of find_best_match
    variants,
    search_results,
    fuzzy_threshold,        \* the matcher
    ml_enabled,
    pc,                     \* where the call is: idle, main, fallback, gate, done
    original_details,       \* the locals of find_best_match
    best_match,
    best_score,
    best_variant,
    re,
    result_no,
    variant_no,
    extracted,              \* what extract_product_details returned to this call
    selected_by,            \* the pass that set best_match
    failed,                 \* the (result, check, variant) rejections of the main pass
    called,                 \* the results calculate_match_score was called with
    scored,                 \* the (result, variant) pairs it was called with
    scores,                 \* the values calculate_match_score returned
    outcome,                \* how the call ended
    previous,               \* how the call before it ended
    calls,
    search_failed,          \* the row: the retailer searches failed (exception, page not loaded)
    status                  \* the row: its Status column

vars == << original_product_name, variants, search_results, fuzzy_threshold, ml_enabled,
           pc, original_details, best_match, best_score, best_variant, re, result_no, variant_no,
           extracted, selected_by, failed, called, scored, scores, outcome, previous, calls,
           search_failed, status >>

args == << original_product_name, variants, fuzzy_threshold, ml_enabled >>

row == << search_failed, status >>

Init ==
    /\ \E s \in 1..Len(Scenarios) :
          /\ original_product_name = Scenarios[s].name
          /\ variants = Scenarios[s].variants
          /\ \E list \in ResultLists(s) :
                search_results = [k \in 1..Len(list) |-> SearchResult(list[k])]
    /\ fuzzy_threshold \in Thresholds
    /\ ml_enabled \in MlStates
    /\ pc = "idle"
    /\ original_details = NoDetails
    /\ extracted = NoDetails
    /\ best_match = 0
    /\ best_score = ScoreInt(0)
    /\ best_variant = << >>
    /\ re = FALSE
    /\ result_no = 1
    /\ variant_no = 1
    /\ selected_by = "none"
    /\ failed = {}
    /\ called = {}
    /\ scored = {}
    /\ scores = {}
    /\ outcome = Pending
    /\ previous = Pending
    /\ calls = 0
    /\ search_failed \in IF search_results = << >> THEN BOOLEAN ELSE {FALSE}
    /\ status = ""

\* a call that starts from the highest score written into the candidates
StoredBestScore(results) ==
    IF results = << >> THEN ScoreInt(0)
    ELSE results[CHOOSE k \in 1..Len(results) :
                    \A m \in 1..Len(results) : ~ScoreGt(results[m].score, results[k].score)].score

\* best_score = 0 at the start of a call
InitialBestScore(results) == ScoreInt(0)

\* find_best_match is called: the early return, or the extraction and the locals
Call ==
    /\ pc \in {"idle", "done"}
    /\ calls < MaxCalls
    /\ calls' = calls + 1
    /\ previous' = outcome
    /\ original_details' = IF /\ variants # << >>
                              /\ search_results # << >>
                              /\ original_product_name # << >>
                           THEN Details(original_product_name)
                           ELSE NoDetails
    /\ extracted' = original_details'
    /\ best_match' = 0
    /\ best_score' = InitialBestScore(search_results)
    /\ best_variant' = << >>
    /\ re' = FALSE
    /\ result_no' = 1
    /\ variant_no' = 1
    /\ selected_by' = "none"
    /\ failed' = {}
    /\ called' = {}
    /\ scored' = {}
    /\ scores' = {}
    /\ IF variants = << >> \/ search_results = << >>
       THEN pc' = "done" /\ outcome' = ReturnsNone
       ELSE pc' = "main" /\ outcome' = Pending
    /\ UNCHANGED << args, search_results, row >>

\* the pair of the loops and what the checks see of it
Pair ==
    [title |-> search_results[result_no].title, url |-> search_results[result_no].url,
     retailer |-> search_results[result_no].retailer, variant |-> variants[variant_no],
     text |-> FullResultText(search_results[result_no]), name |-> original_product_name,
     ml |-> ml_enabled, threshold |-> fuzzy_threshold]

Start ==
    [kind |-> "go", err |-> "", why |-> "", score |-> ScoreInt(0), d |-> original_details,
     re |-> re, call |-> "none", raw |-> ScoreInt(0)]

\* the loops go on with the next variant, or with the next result after a break
LastPair(limit, leave) ==
    /\ leave \/ variant_no = Len(variants)
    /\ result_no = Min(limit, Len(search_results))

Advance(limit, leave) ==
    IF leave \/ variant_no = Len(variants) THEN result_no' = result_no + 1 /\ variant_no' = 1 ELSE result_no' = result_no /\ variant_no' = variant_no + 1

Logged(r) ==
    /\ called' = IF r.call # "none" THEN called \cup {result_no} ELSE called
    /\ scored' = IF r.call # "none" THEN scored \cup {<<result_no, variant_no>>} ELSE scored
    /\ scores' = IF r.call = "returned" THEN scores \cup {r.raw} ELSE scores
    /\ original_details' = r.d
    /\ re' = r.re

\* a main pass that lets a pair with the score of the best replace it
ImprovesOrTies(score, best) == ~ScoreGt(best, score)

\* score > best_score
Improves(score, best) == ScoreGt(score, best)

\* one round of the main loop: a result with an accessory title is skipped, else the
\* body runs for one variant
MainRound(r, in) ==
       LET accepted == /\ r.kind = "go"
                       /\ Improves(r.score, best_score)
                       /\ ScoreGe(r.score, fuzzy_threshold)
                       /\ IsValidFinalMatch(r.d, search_results[result_no], in.text)
           last == LastPair(Len(search_results), r.kind = "break")
       IN /\ Logged(r)
          /\ failed' = IF r.kind \in {"continue", "break"}
                       THEN failed \cup {<<result_no, r.why, variant_no>>} ELSE failed
          /\ IF accepted
             THEN /\ best_match' = result_no
                  /\ best_score' = r.score
                  /\ best_variant' = variants[variant_no]
                  /\ selected_by' = "main"
             ELSE UNCHANGED << best_match, best_score, best_variant, selected_by >>
          /\ IF r.kind = "raise"
             THEN pc' = "done" /\ outcome' = RaisesError(r.err) /\ UNCHANGED << result_no, variant_no >>
             ELSE /\ outcome' = outcome
                  /\ IF last
                     THEN /\ pc' = IF best_match' = 0 THEN "fallback" ELSE "gate"
                          /\ result_no' = 1 /\ variant_no' = 1
                     ELSE pc' = pc /\ Advance(Len(search_results), r.kind = "break")

MainStep ==
    /\ pc = "main"
    /\ MainRound(IF TitleAccessory(search_results[result_no].title)
                 THEN [Start EXCEPT !.kind = "break", !.why = "accessory_title"]
                 ELSE MainBody(Start, Pair), Pair)
    /\ UNCHANGED << args, search_results, extracted, previous, calls, row >>

\* one round of the loop of the fallback pass
FallbackRound(r, result_lower) ==
       LET accepted == /\ r.kind = "go"
                       /\ FallbackAccepts(r.score, best_score, r.d, result_lower)
           last == LastPair(FallbackSlice(search_results), FALSE)
       IN /\ Logged(r)
          /\ IF accepted
             THEN /\ best_match' = result_no
                  /\ best_score' = FallbackScore(r.score, r.d, result_lower)
                  /\ best_variant' = variants[variant_no]
                  /\ selected_by' = "fallback"
             ELSE UNCHANGED << best_match, best_score, best_variant, selected_by >>
          /\ IF r.kind = "raise"
             THEN pc' = "done" /\ outcome' = RaisesError(r.err) /\ UNCHANGED << result_no, variant_no >>
             ELSE /\ outcome' = outcome
                  /\ IF last THEN pc' = "gate" /\ result_no' = 1 /\ variant_no' = 1
                     ELSE pc' = pc /\ Advance(FallbackSlice(search_results), FALSE)

FallbackStep ==
    /\ pc = "fallback"
    /\ FallbackRound(FallbackBody(Start, Pair), FallbackTitle(Pair))
    /\ UNCHANGED << args, search_results, extracted, failed, previous, calls, row >>

\* the count check of the gate is reached: its "import re" binds re
GateImportsRe(d, match, score) ==
    match # 0 /\ GateScore(score) /\ d.count.has /\ d.count.v > SignificantCount

\* a gate that writes the variant and the score into every candidate
WrittenIntoAll(results, match, variant, score) ==
    [k \in 1..Len(results) |-> [results[k] EXCEPT !.variant = variant, !.score = score]]

\* best_match.variant = best_variant; best_match.score = best_score
WrittenInto(results, match, variant, score) ==
    [results EXCEPT ![match].variant = variant, ![match].score = score]

\* a gate that returns the best match although it has refused it
GateKeepsRefused(match, score, variant) ==
    IF match # 0 THEN ReturnsResult(match, score, variant) ELSE ReturnsNone

\* the gate has refused the best match, or there is none: return None
GateRefuses(match, score, variant) == ReturnsNone

\* the terminal gate: the best match is returned with its variant and score written
\* into it, or None is returned
Gate ==
    /\ pc = "gate"
    /\ pc' = "done"
    /\ IF /\ best_match # 0
          /\ GateScore(best_score)
          /\ AllAttributesMatch(original_details, search_results[best_match].title)
       THEN /\ search_results' = WrittenInto(search_results, best_match, best_variant,
                                               best_score)
            /\ outcome' = ReturnsResult(best_match, best_score, best_variant)
       ELSE /\ search_results' = search_results
            /\ outcome' = GateRefuses(best_match, best_score, best_variant)
    /\ re' = (re \/ GateImportsRe(original_details, best_match, best_score))
    /\ UNCHANGED << args, original_details, best_match, best_score, best_variant, result_no, variant_no,
                    extracted, selected_by, failed, called, scored, scores, previous, calls, row >>

\* the Status _update_dataframe writes for what _process_row has returned, or for the
\* exception process_excel_file has caught
RowStatus(result) ==
    CASE result.kind = "returned" -> "SUCCESS"
      [] result.kind = "raised" -> "ERROR"
      [] OTHER -> "NOT_FOUND"

\* the end of _process_row and _update_dataframe: without search results the row is
\* NOT_FOUND and the matcher is not called; else the row gets the status of what the
\* one call of find_best_match has given
UpdateDataframe ==
    /\ status = ""
    /\ \/ pc = "idle" /\ search_results = << >> /\ status' = RowStatus(ReturnsNone)
       \/ pc = "done" /\ calls = 1 /\ search_results # << >> /\ status' = RowStatus(outcome)
    /\ UNCHANGED << args, search_results, pc, original_details, best_match, best_score,
                    best_variant, re, result_no, variant_no, extracted, selected_by, failed,
                    called, scored, scores, outcome, previous, calls, search_failed >>

Next == Call \/ MainStep \/ FallbackStep \/ Gate \/ UpdateDataframe

Spec == Init /\ [][Next]_vars

(***************************************************************************)
(* The properties                                                          *)
(***************************************************************************)
Returned == outcome.kind = "returned"

\* the title of the candidate that was returned
ReturnedTitle == search_results[outcome.index].title

\* the call was made by a matcher as __init__ leaves it
AsConstructed == ml_enabled = "unset"

\* the checks of the main pass that reject a candidate for what it is
HardRejects ==
    {"accessory_title", "accessory", "conflict", "generation", "size", "transitions",
     "simple_color", "not_simple", "prizm", "lens_color", "clear_early", "clear",
     "lens_type", "frame", "low_bridge_fit", "brand", "weight", "flavor", "count", "name"}

\* C1: hard-filter monotonicity.  A candidate that one of the hard-reject checks of
\* the main pass has refused is never the candidate find_best_match returns, the
\* fallback pass included.
C1_HardFilterMonotonicity ==
    Returned => \A f \in failed : ~(f[1] = outcome.index /\ f[2] \in HardRejects)

\* C2: find_best_match never raises.  With a description, variants and candidates,
\* none of them empty, the call of a matcher as its constructor leaves it ends with a
\* candidate or with None.
C2_NeverRaises ==
    (/\ AsConstructed
     /\ original_product_name # << >>
     /\ variants # << >>
     /\ search_results # << >>) => outcome.kind # "raised"

\* C3: weight exactness.  When the description yields a weight, the title of the
\* candidate that is returned yields a weight too, and the two differ by at most
\* 0.01 oz.
C3_WeightExactness ==
    (Returned /\ extracted.weight.has) =>
        /\ extract_weight(ReturnedTitle).has
        /\ Abs(extracted.weight.n * extract_weight(ReturnedTitle).d
               - extract_weight(ReturnedTitle).n * extracted.weight.d) * 100
              <= extracted.weight.d * extract_weight(ReturnedTitle).d

\* a description with a weight: one candidate was refused by the weight check of the
\* main pass and another one was returned
C3_Witness ==
    /\ Returned
    /\ extracted.weight.has
    /\ \E f \in failed : f[1] # outcome.index /\ f[2] = "weight"

\* C4: score bound.  Every value calculate_match_score returns is between 0 and 100.
C4_ScoreBound ==
    \A v \in scores : ScoreGe(v, 0) /\ ~ScoreGt(v, ScoreInt(100))

\* the lens fields of a details record that are populated
LensKinds(d) ==
    {k \in {"transitions", "prizm", "simple", "lens_type"} :
        \/ k = "transitions" /\ d.transitions_color # << >>
        \/ k = "prizm" /\ d.prizm_color # << >>
        \/ k = "simple" /\ (d.simple_lens_color # << >> \/ d.lens_color # << >>)
        \/ k = "lens_type" /\ d.lens_type # << >>}

\* C5: lens exclusivity.  The record extract_product_details returns has at most one
\* of the four lens fields populated: Transitions colour, Prizm colour, simple lens
\* colour, lens type.
C5_LensExclusivity == Cardinality(LensKinds(extracted)) <= 1

\* C6: idempotence.  A call with the arguments and the candidate objects of the call
\* before it ends as that call did: the same candidate with the same score and
\* variant, or None, or the same exception.
C6_Idempotence == (pc = "done" /\ calls >= 2) => outcome = previous

\* the second call has returned the candidate into which the first call had written
\* its score and variant
C6_Witness ==
    /\ pc = "done"
    /\ calls >= 2
    /\ Returned
    /\ previous.kind = "returned"
    /\ search_results[outcome.index].variant # << >>
    /\ ScoreGe(search_results[outcome.index].score, MinimumScore)

ScenarioA == Scenarios[2]

\* C7: Scenario A.  For the description with Transitions(R) Sapphire lenses and the one
\* candidate "... Transitions Sapphire Sunglasses" the call returns the candidate
\* with a score of 70 or more.
C7_ScenarioA ==
    (/\ pc = "done"
     /\ original_product_name = ScenarioA.name
     /\ Len(search_results) = 1
     /\ search_results[1].title = ScenarioA.pool[1].title)
        => Returned /\ outcome.index = 1 /\ ScoreGe(outcome.score, 70)

\* the title names Transitions and the colour after it is the expected one
StatesTransitions(expected, title) ==
    /\ IsSubstr(<<"t","r","a","n","s","i","t","i","o","n","s">>, Lower(title))
    /\ TransitionsSearch(title).has
    /\ \/ normalize_text(Strip(TransitionsSearch(title).text)) = expected
       \/ /\ Len(Words(expected)) > 1
          /\ \A k \in 1..Len(Words(expected)) :
                IsSubstr(Words(expected)[k], normalize_text(Strip(TransitionsSearch(title).text)))

StatedTolerance(expected) ==
    IF expected > 20 THEN Max(2, expected \div 10) ELSE Max(2, (15 * expected) \div 100)

\* C9: count tolerance.  When the count of the description is above 10, a candidate
\* that is returned and states a count ("N ct", "N count", "pack of N", "N pieces")
\* states one within the tolerance.
C9_CountTolerance ==
    (/\ Returned
     /\ extracted.count.has
     /\ extracted.count.v > 10
     /\ ExtractCount4(ReturnedTitle).has)
        => Abs(extracted.count.v - ExtractCount4(ReturnedTitle).v)
              <= StatedTolerance(extracted.count.v)

\* C10: accessory rejection.  calculate_match_score is never called with the title of
\* a candidate that names HIBLOKS (or clip-on with polarized), and find_best_match
\* never returns such a candidate.
C10_AccessoryRejection ==
    \A k \in 1..Len(search_results) :
        TitleAccessory(search_results[k].title)
            => k \notin called /\ ~(Returned /\ outcome.index = k)

\* C11: terminal score gate.  The score written into the candidate find_best_match
\* returns is at least 70 and at most 100, for every configured threshold and for
\* both passes; a selected candidate below 70 is not returned.
C11_TerminalScoreGate ==
    /\ Returned => /\ ScoreGe(search_results[outcome.index].score, 70)
                   /\ ~ScoreGt(search_results[outcome.index].score, ScoreInt(100))
    /\ (pc = "done" /\ best_match # 0 /\ ScoreLt(best_score, 70)) => ~Returned

\* with the threshold 60 the fallback pass has selected a candidate, and it was
\* returned with a score under 100
C11_Witness ==
    /\ Returned
    /\ fuzzy_threshold = 60
    /\ selected_by = "fallback"
    /\ ScoreLt(search_results[outcome.index].score, 100)

\* the gate has decided on a selected candidate
GateDecided == pc = "done" /\ best_match # 0 /\ outcome.kind \in {"none", "returned"}

\* C12: terminal brand and flavor re-validation.  The title of the candidate that is
\* returned contains the brand of the description when it has one, and the flavor
\* phrase when it has one; a selected candidate that fails either makes the call
\* return None.
C12_BrandFlavorRevalidation ==
    /\ (Returned /\ extracted.brand # << >>)
          => IsSubstr(Lower(extracted.brand), Lower(ReturnedTitle))
    /\ (Returned /\ extracted.flavor # << >>)
          => IsSubstr(Lower(extracted.flavor), Lower(ReturnedTitle))
    /\ (/\ GateDecided
        /\ \/ /\ extracted.brand # << >>
              /\ ~IsSubstr(Lower(extracted.brand), Lower(search_results[best_match].title))
           \/ /\ extracted.flavor # << >>
              /\ ~IsSubstr(Lower(extracted.flavor), Lower(search_results[best_match].title)))
          => outcome = ReturnsNone

\* the main pass has selected a candidate with a score of 70 or more whose title does
\* not show the brand of the description, and the call has returned None
C12_Witness ==
    /\ GateDecided
    /\ ScoreGe(best_score, 70)
    /\ extracted.brand # << >>
    /\ ~IsSubstr(Lower(extracted.brand), Lower(search_results[best_match].title))
    /\ outcome = ReturnsNone

\* C13: configured threshold.  The score of the candidate find_best_match returns is
\* not below the configured fuzzy_threshold, for every configured value.
C13_ConfiguredThreshold == Returned => ScoreGe(outcome.score, fuzzy_threshold)

\* C14: filter before score.  calculate_match_score is never called for a pair of
\* candidate and variant that a hard-reject check refuses.
C14_FilterBeforeScore ==
    \A f \in failed : f[2] \in HardRejects => <<f[1], f[3]>> \notin scored

\* C15: attribute immutability.  The record of attributes that the call has extracted
\* from the description is the record every pair of the call is checked against.
C15_AttributeImmutability == pc # "idle" => original_details = extracted

\* C16: model corroboration.  When the description has a significant model, no
\* candidate is returned whose text lacks the exact model phrase (the core model or
\* the full model), by the main pass or by the fallback pass.
C16_ModelCorroboration ==
    (Returned /\ IsSignificantModel(extracted.model))
        => ExactModelMatch(extracted.model,
                           Lower(FullResultText(search_results[outcome.index])))

\* C17: Clear-lens gate.  When the simple lens colour of the description is Clear, the
\* candidate that is returned has "clear" in its title or URL and none of polarised,
\* polarized and gradient in its title.
C17_ClearLensGate ==
    (Returned /\ Lower(extracted.simple_lens_color) = <<"c","l","e","a","r">>)
        => /\ \/ IsSubstr(<<"c","l","e","a","r">>, Lower(ReturnedTitle))
              \/ IsSubstr(<<"c","l","e","a","r">>, Lower(search_results[outcome.index].url))
           /\ ~HasLensWord(Lower(ReturnedTitle))

\* the key words of the name check of the main pass
MainKeyWords(d) ==
    NameKeyWords(d, TRUE)
        \o (IF d.generation # << >> /\ GenDigits(Lower(d.generation)) # << >>
            THEN <<GenKeyWord(d.generation)>> ELSE << >>)

\* at least 70% of more than two key words are in the text, or all of one or two
StatedOverlap(key_words, text) ==
    IF Len(key_words) > 2
    THEN 10 * CountIf(key_words, LAMBDA w : IsSubstr(w, text)) >= 7 * Len(key_words)
    ELSE \A k \in 1..Len(key_words) : IsSubstr(key_words[k], text)

\* C18: name-overlap gate.  A pair the main pass has let through its name check (the
\* pairs it has scored) shows at least 70% of the k key words of the description when
\* k > 2, and all of them when k <= 2.
C18_NameOverlapGate ==
    (original_product_name # << >> /\ (pc = "main" \/ selected_by = "main"))
        => \A p \in scored :
              StatedOverlap(MainKeyWords(extracted),
                            Lower(FullResultText(search_results[p[1]])))

\* C19: missing count.  When the count of the description is above 10, the candidate
\* that is returned states a count.
C19_MissingCount ==
    (Returned /\ extracted.count.has /\ extracted.count.v > 10)
        => ExtractCount4(Lower(FullResultText(search_results[outcome.index]))).has

\* the title states a generation, and it is not the expected one
StatesOtherGeneration(generation, title) ==
    /\ GenDigits(Lower(normalize_text(title))) # << >>
    /\ <<"g","e","n"," ">> \o GenDigits(Lower(normalize_text(title))) # Lower(generation)

C21_NotFoundVersusError ==
    /\ status = "NOT_FOUND" => ~search_failed
    /\ (AsConstructed /\ status = "ERROR") => search_failed

\* C22: flavor extraction prefers the longer phrase.  When the description contains a
\* phrase of the vocabulary that contains another entry of the vocabulary ("peanut
\* butter" and "peanut", "mixed" and "mix"), the flavor is not the shorter entry.
C22_LongerFlavorPhrase ==
    extracted # NoDetails =>
        \A i, j \in 1..Len(flavor_keywords) :
            (/\ i # j
             /\ IsSubstr(flavor_keywords[i], flavor_keywords[j])
             /\ IsSubstr(flavor_keywords[j], Lower(original_product_name)))
                => extracted.flavor # flavor_keywords[i]

\* two scores are the same number
ScoreSame(x, y) == x.n * y.d = y.n * x.d

\* C23: base similarity uses the variant.  For every pair calculate_match_score was
\* called with, the base term of the score is the token-sort similarity of the
\* normalized variant and the normalized title of the candidate.
C23_BaseUsesVariant ==
    (original_product_name # << >> /\ extracted # NoDetails) =>
        \A p \in scored :
            ScoreSame(BaseScore(extracted, search_results[p[1]].title),
                      TokenSortRatio(normalize_text(variants[p[2]]),
                                     normalize_text(search_results[p[1]].title)))

\* the best match passes the terminal gate
GatePasses ==
    /\ best_match # 0
    /\ GateScore(best_score)
    /\ AllAttributesMatch(original_details, search_results[best_match].title)

\* C24: no second-best after terminal rejection.  When the best match fails the
\* terminal gate the call ends there with None; the fallback pass is only entered
\* from the main pass, never after the gate.
C24_NoSecondBest ==
    [][/\ (pc = "gate" /\ best_match # 0 /\ ~GatePasses)
            => (pc' = "done" /\ outcome' = ReturnsNone /\ search_results' = search_results)
       /\ (pc' = "fallback" /\ pc # "fallback") => pc = "main"]_vars

\* the main pass has selected one of two candidates, the gate has refused it, and the
\* call has returned None although it has scored the other candidate too
C24_Witness ==
    /\ GateDecided
    /\ selected_by = "main"
    /\ ~GatePasses
    /\ outcome = ReturnsNone
    /\ \E k \in called : k # best_match

FreshStart == [Start EXCEPT !.d = extracted, !.re = FALSE]

\* C26: order independence of the filter.  Whether a candidate gets through the checks
\* of the main pass depends on the description and the candidate only: at its place
\* in the list it gets through exactly if it does as the first candidate of a call.
C26_OrderIndependence ==
    (pc = "main" /\ ~TitleAccessory(search_results[result_no].title))
        => ((MainBody(Start, Pair).kind = "go") <=> (MainBody(FreshStart, Pair).kind = "go"))

\* C27: gate consistency.  A candidate the main pass has selected, which has passed
\* the brand check of the main pass, passes the brand check of the terminal gate.
C27_GateConsistency ==
    (pc \in {"gate", "done"} /\ selected_by = "main" /\ original_details.brand # << >>)
        => GateBrand(original_details, search_results[best_match].title)

\* the text shows every brand word and core model word that is a key word, and the
\* generation as it is written in the description
ShowsNameAndGeneration(d, text) ==
    /\ \A k \in 1..Len(NameKeyWords(d, TRUE)) : IsSubstr(NameKeyWords(d, TRUE)[k], text)
    /\ IsSubstr(Lower(d.generation), text)

\* C28: generation token in the name-overlap gate.  A candidate whose text shows every
\* brand word, every core model word and the generation "Gen N" of the description
\* passes the name check, in the main pass and in the fallback pass.
C28_GenerationToken ==
    (/\ pc \in {"main", "fallback"}
     /\ original_details.generation # << >>
     /\ ShowsNameAndGeneration(original_details, Lower(normalize_text(Pair.title))))
        => IF pc = "main" THEN NameOverlap(Start, Pair).kind = "go"
           ELSE FallbackName(Start, Pair).kind = "go"

\* the pair of this round passes every check, reaches the configured threshold and
\* passes the final validation
Eligible(r) ==
    /\ ~TitleAccessory(search_results[result_no].title)
    /\ r.kind = "go"
    /\ ScoreGe(r.score, fuzzy_threshold)
    /\ IsValidFinalMatch(r.d, search_results[result_no], Pair.text)

\* the round takes its pair as the best exactly if it is eligible with a score
\* strictly above the best so far
SelectionRule(r) ==
    IF Eligible(r) /\ ScoreGt(r.score, best_score)
    THEN best_match' = result_no /\ best_score' = r.score /\ best_variant' = variants[variant_no]
    ELSE UNCHANGED << best_match, best_score, best_variant >>

\* C29: selection rule.  In the main pass a pair becomes the best exactly when it
\* has passed every check, reached the configured threshold and the final validation
\* and its score is strictly above the best so far: the best is the first pair with
\* the highest score, a later pair with the same score does not replace it.
C29_SelectionRule == [][pc = "main" => SelectionRule(MainBody(Start, Pair))]_vars

\* the main pass has kept the first variant of the candidate it has selected, although
\* it has scored the candidate with the second variant too, and the call has returned
\* the candidate with the first variant
C29_Witness ==
    /\ Returned
    /\ selected_by = "main"
    /\ Len(variants) >= 2
    /\ variants[1] # variants[2]
    /\ <<outcome.index, 2>> \in scored
    /\ outcome.variant = variants[1]

\* C30: frame of find_best_match on the candidate list.  A step of the call changes
\* nothing but the score and the variant of the candidate it returns: every other
\* candidate, and the url, title and retailer of every candidate, stay as they are,
\* and a call that returns None or raises changes no candidate.
C30_CandidateFrame ==
    [][/\ Len(search_results') = Len(search_results)
       /\ \A k \in 1..Len(search_results) :
             /\ search_results'[k].url = search_results[k].url
             /\ search_results'[k].title = search_results[k].title
             /\ search_results'[k].retailer = search_results[k].retailer
             /\ search_results'[k] # search_results[k]
                   => (outcome'.kind = "returned" /\ outcome'.index = k /\ pc = "gate")]_vars

\* the call has returned one of two candidates with its score and variant written into
\* it, and the other candidate is as the search has given it
C30_Witness ==
    /\ Returned
    /\ calls = 1
    /\ search_results[outcome.index].variant # << >>
    /\ \E k \in 1..Len(search_results) :
          /\ k # outcome.index
          /\ search_results[k].variant = << >>
          /\ search_results[k].score = ScoreInt(0)

====
